---- MODULE Spec2Model ----
(***************************************************************************)
(* A model of cmdrdata_gemini/proxy.py: the TrackedProxy forwarding proxy  *)
(* (attribute resolution with its memo cache, attribute assignment) and    *)
(* the per-call wrapper built by TrackedProxy._wrap_method, and the two    *)
(* built-in extraction functions track_generate_content and                *)
(* track_count_tokens with the table GEMINI_TRACK_METHODS.  The customer   *)
(* context (get_effective_customer_id) and the usage sink                  *)
(* (tracker.track_usage_background) are outside this file of the           *)
(* repository; they are modelled as its specification describes them.      *)
(*                                                                         *)
(* Python strings that the code slices or prefix-tests (attribute names,   *)
(* interception-table keys) are sequences of one-character strings, so     *)
(* that startswith and slicing are computed as the code computes them.     *)
(* Other Python values are opaque tokens (TLA+ strings).                   *)
(*                                                                         *)
(* Object identity: an object of the target has a fixed oid; an object the *)
(* proxy allocates (a wrapper closure, a child proxy) is identified by the *)
(* proxy, the name and the thread whose __getattr__ allocated it.  A       *)
(* thread allocates at most one object per proxy and name, because the     *)
(* name is in the cache from its first store on, so distinct allocations   *)
(* have distinct identities (checked as AllocationsDistinct).              *)
(***************************************************************************)
EXTENDS Integers, Sequences, FiniteSets, TLC

VARIABLES
    attrs,      \* the target object graph: oid -> (attribute name -> value)
    proxies,    \* every TrackedProxy instance: pid -> its fields
    known,      \* the proxies some caller holds a reference to
    setCount,   \* number of attribute assignments made so far
    pc,         \* per thread: its position
    loc,        \* per thread: the locals of the running __getattr__
    ret,        \* per thread: what the caller observed from the last operation
    missed,     \* history: the (pid, name) lookups that raised AttributeError
    clock,      \* time.time()
    call,       \* per thread: the locals of the running wrapped(...)
    mlog,       \* per thread: the real-method invocations of the current call
    tlog,       \* per thread: the tracker_func invocations of the current call
    slog,       \* per thread: the sink's record operations of the current call
    context     \* the ambient customer id (the customer context)

vars == <<attrs, proxies, known, setCount, pc, loc, ret, missed,
          clock, call, mlog, tlog, slog, context>>

callVars == <<clock, call, mlog, tlog, slog, context>>

----------------------------------------------------------------------------
(* Bounds *)

\* attribute assignments (TrackedProxy.__setattr__) in one behaviour
MaxSets == 1
\* attribute assignments in one behaviour of SpecOwn, where two of them
\* may fall between two statements of one read
MaxOwnSets == 2
\* the largest reading of time.time()
MaxClock == 1
\* the most method objects a caller binds to one proxy
MaxBinds == 2

Threads == {"t1", "t2"}

----------------------------------------------------------------------------
(* Python strings as character sequences *)

StartsWith(s, p) == Len(s) >= Len(p) /\ SubSeq(s, 1, Len(p)) = p

\* s[n:]
SliceFrom(s, n) == SubSeq(s, n + 1, Len(s))

Dot == <<".">>

nGen == <<"g">>
nModels == <<"m">>
nVer == <<"v">>
nCount == <<"c">>
nLate == <<"n">>
nPriv == <<"_", "x">>
\* the instance attributes __init__ sets on the proxy, and a method of the
\* class
nClientField == <<"_", "c", "l", "i", "e", "n", "t">>
nTrackerField == <<"_", "t", "r", "a", "c", "k", "e", "r">>
nTrackMethodsField ==
    <<"_", "t", "r", "a", "c", "k", "_", "m", "e", "t", "h", "o", "d", "s">>
nTrackedAttributesField ==
    <<"_", "t", "r", "a", "c", "k", "e", "d", "_", "a", "t", "t", "r", "i", "b", "u",
      "t", "e", "s">>
nWrapMethod == <<"_", "w", "r", "a", "p", "_", "m", "e", "t", "h", "o", "d">>
OwnFields == {nClientField, nTrackerField, nTrackMethodsField, nTrackedAttributesField}
nOuter == <<"o">>
nInner == <<"i">>
nOp == <<"p">>
nOther == <<"k">>
nQuery == <<"q">>
nUtil == <<"u">>
nHook == <<"h">>
\* the member names of the google-genai client that the built-in table uses
nGeminiModels == <<"m", "o", "d", "e", "l", "s">>
nGenerateContent ==
    <<"g", "e", "n", "e", "r", "a", "t", "e", "_", "c", "o", "n", "t", "e", "n", "t">>
nCountTokens == <<"c", "o", "u", "n", "t", "_", "t", "o", "k", "e", "n", "s">>

Names == {nGen, nModels, nVer, nCount, nLate}
NestNames == {nOuter, nInner, nOp, nModels, nCount, nOther, nQuery, nUtil, nHook}
GeminiNames == {nGeminiModels, nGenerateContent, nCountTokens}

----------------------------------------------------------------------------
(* Python objects of the target *)

NoAttr == [oid |-> "-", kind |-> "absent", cls |-> "-"]

RootClient == [oid |-> "client", kind |-> "obj", cls |-> "Client"]
ModelsObj == [oid |-> "models", kind |-> "obj", cls |-> "Models"]
GenFunc == [oid |-> "client.g", kind |-> "func", cls |-> "function"]
CountFunc == [oid |-> "models.c", kind |-> "func", cls |-> "function"]
RootCountFunc == [oid |-> "client.c", kind |-> "func", cls |-> "function"]
VerStr == [oid |-> "ver", kind |-> "prim", cls |-> "str"]
NewFunc == [oid |-> "newfunc", kind |-> "func", cls |-> "function"]
NewStr == [oid |-> "newstr", kind |-> "prim", cls |-> "str"]
\* the n-th empty dict a caller makes: every {} is a new object
NewDict(n) == [oid |-> "{}#" \o ToString(n), kind |-> "dict", cls |-> "dict"]
\* the usage sink handed to the constructor
TrackerObj == [oid |-> "tracker", kind |-> "obj", cls |-> "UsageTracker"]
\* another usage sink, assigned to a proxy later
OtherTracker == [oid |-> "tracker2", kind |-> "obj", cls |-> "UsageTracker"]
\* the dicts __init__ stored on the proxy pid, and the bound method the
\* n-th read of pid._wrap_method creates: each proxy has its own dicts, and
\* every read of a method of the class binds a new method object
TrackMethodsDict(pid) ==
    [oid |-> ToString(pid) \o "._track_methods", kind |-> "dict", cls |-> "dict"]
TrackedAttributesDict(pid) ==
    [oid |-> ToString(pid) \o "._tracked_attributes", kind |-> "dict", cls |-> "dict"]
WrapMethodBound(pid, n) ==
    [oid |-> ToString(pid) \o "._wrap_method#" \o ToString(n),
     kind |-> "func", cls |-> "method"]
\* a client with deeper namespaces: client.o.i.p(), client.m.c(),
\* client.k.c(), client.k.q(), client.u.c(), client.c()
OuterObj == [oid |-> "outer", kind |-> "obj", cls |-> "Outer"]
InnerObj == [oid |-> "inner", kind |-> "obj", cls |-> "Inner"]
OpFunc == [oid |-> "inner.p", kind |-> "func", cls |-> "function"]
OtherObj == [oid |-> "other", kind |-> "obj", cls |-> "Other"]
OtherCountFunc == [oid |-> "other.c", kind |-> "func", cls |-> "function"]
OtherQueryFunc == [oid |-> "other.q", kind |-> "func", cls |-> "function"]
UtilObj == [oid |-> "util", kind |-> "obj", cls |-> "Util"]
UtilCountFunc == [oid |-> "util.c", kind |-> "func", cls |-> "function"]
\* a method of the client under whose name the table has a dotted key
HookFunc == [oid |-> "client.h", kind |-> "func", cls |-> "method"]
\* the google-genai client: client.models.generate_content(),
\* client.models.count_tokens()
GeminiClient == [oid |-> "genai", kind |-> "obj", cls |-> "Client"]
GeminiModels == [oid |-> "genai.models", kind |-> "obj", cls |-> "Models"]
GenerateContentFunc ==
    [oid |-> "genai.models.generate_content", kind |-> "func", cls |-> "method"]
CountTokensFunc ==
    [oid |-> "genai.models.count_tokens", kind |-> "func", cls |-> "method"]

Values == {RootClient, ModelsObj, GenFunc, CountFunc, RootCountFunc, VerStr,
           NewFunc, NewStr}

\* the values a caller assigns through the proxy
SetValues == {NewFunc, NewStr}

Callable(v) == v.kind = "func"
\* setattr(v, name, value) succeeds: objects and functions take attributes;
\* bound methods, str and dict instances do not
AcceptsAttrs(v) == v.kind = "obj" \/ (v.kind = "func" /\ v.cls = "function")
HasDict(v) == v.kind \in {"func", "obj"}
IsPrimitive(v) == v.kind = "prim"
TypeName(v) == v.cls

NoAttrs == [n \in Names |-> NoAttr]

\* the object graph before the first call: client.g(), client.m.c(),
\* client.c(), client.v; client.n does not exist
InitAttrs ==
    [o \in {v.oid : v \in {v \in Values : HasDict(v)}} |->
        IF o = RootClient.oid
        THEN [NoAttrs EXCEPT ![nGen] = GenFunc, ![nModels] = ModelsObj,
                             ![nCount] = RootCountFunc, ![nVer] = VerStr]
        ELSE IF o = ModelsObj.oid
        THEN [NoAttrs EXCEPT ![nCount] = CountFunc, ![nVer] = VerStr]
        ELSE NoAttrs]

\* the object graph of the client with deeper namespaces
NestAttrs ==
    LET none == [n \in NestNames |-> NoAttr] IN
    [o \in {v.oid : v \in {RootClient, ModelsObj, OuterObj, InnerObj, OtherObj, UtilObj}} |->
        IF o = RootClient.oid
        THEN [none EXCEPT ![nOuter] = OuterObj, ![nModels] = ModelsObj,
                          ![nOther] = OtherObj, ![nUtil] = UtilObj,
                          ![nCount] = RootCountFunc, ![nHook] = HookFunc]
        ELSE IF o = ModelsObj.oid
        THEN [none EXCEPT ![nCount] = CountFunc]
        ELSE IF o = OuterObj.oid
        THEN [none EXCEPT ![nInner] = InnerObj]
        ELSE IF o = InnerObj.oid
        THEN [none EXCEPT ![nOp] = OpFunc]
        ELSE IF o = OtherObj.oid
        THEN [none EXCEPT ![nCount] = OtherCountFunc, ![nQuery] = OtherQueryFunc]
        ELSE [none EXCEPT ![nCount] = UtilCountFunc]]

\* the object graph of the google-genai client
GeminiAttrs ==
    LET none == [n \in GeminiNames |-> NoAttr] IN
    [o \in {GeminiClient.oid, GeminiModels.oid} |->
        IF o = GeminiClient.oid
        THEN [none EXCEPT ![nGeminiModels] = GeminiModels]
        ELSE [none EXCEPT ![nGenerateContent] = GenerateContentFunc,
                          ![nCountTokens] = CountTokensFunc]]

\* getattr(obj, name), NoAttr standing for AttributeError
PyGetAttr(heap, obj, name) ==
    IF obj.oid \in DOMAIN heap /\ name \in DOMAIN heap[obj.oid]
    THEN heap[obj.oid][name]
    ELSE NoAttr

----------------------------------------------------------------------------
(* The interception table *)

RootTable == (nGen :> "track_g") @@ ((nModels \o Dot \o nCount) :> "track_mc")

\* a table with a three-level key and keys under two namespaces
NestTable ==
    ((nOuter \o Dot \o nInner \o Dot \o nOp) :> "track_op")
        @@ ((nModels \o Dot \o nCount) :> "track_mc")
        @@ ((nOther \o Dot \o nQuery) :> "track_kq")
        @@ ((nHook \o Dot \o nQuery) :> "track_hq")

\* GEMINI_TRACK_METHODS
GEMINI_TRACK_METHODS ==
    ((nGeminiModels \o Dot \o nGenerateContent) :> "track_generate_content")
        @@ ((nGeminiModels \o Dot \o nCountTokens) :> "track_count_tokens")

EmptyMap == [x \in {} |-> NoAttr]

\* a derived table that tests only where the dot stands, not what precedes it
SubTrackMethodsAnyPrefix(tm, name) ==
    LET ks == {k \in DOMAIN tm : Len(k) > Len(name) /\ k[Len(name) + 1] = "."} IN
    [s \in {SliceFrom(k, Len(name) + 1) : k \in ks} |->
        tm[CHOOSE k \in ks : SliceFrom(k, Len(name) + 1) = s]]

\* {k[len(name)+1:]: v for k, v in track_methods.items() if k.startswith(name + ".")}
SubTrackMethods(tm, name) ==
    [s \in {SliceFrom(k, Len(name) + 1) :
                k \in {k \in DOMAIN tm : StartsWith(k, name \o Dot)}} |->
        tm[name \o Dot \o s]]

----------------------------------------------------------------------------
(* Handles: what attribute access through a proxy returns *)

Root == <<"proxy">>

\* the identity of the object thread t allocates while resolving name on pid
NewId(pid, name, t, n) ==
    pid \o <<"/">> \o name \o <<"@", t>> \o (IF n = 0 THEN <<>> ELSE <<"#", ToString(n)>>)

NoHandle == [h |-> "none", id |-> <<>>, v |-> NoAttr, name |-> <<>>, tf |-> "-", pid |-> <<>>]

\* the attribute itself
Plain(v) == [NoHandle EXCEPT !.h = "plain", !.id = <<v.oid>>, !.v = v]

\* the closure _wrap_method returns: a new function object capturing
\* method, method_name, tracker_func and self
WrapMethod(pid, tm, method, method_name, id) ==
    [h |-> "wrapped", id |-> id, v |-> method, name |-> method_name,
     tf |-> tm[method_name], pid |-> pid]

\* a child TrackedProxy
ProxyHandle(v, pid) == [NoHandle EXCEPT !.h = "proxy", !.id = pid, !.v = v, !.pid = pid]

\* TrackedProxy.__init__; caches counts the dicts that have been the memo
\* cache of the proxy before the present one, which tells the objects made
\* for one cache from those made for another, and binds the method
\* objects bound to the proxy so far
NewProxy(client, tracker, track_methods) ==
    [client |-> client, tracker |-> tracker, track_methods |-> track_methods,
     tracked_attributes |-> EmptyMap, extra |-> EmptyMap, caches |-> 0, binds |-> 0]

----------------------------------------------------------------------------
(* What a caller observes *)

NoRet == [kind |-> "none", h |-> NoHandle, value |-> "-", exc |-> "-", tname |-> "-", name |-> <<>>]
Returned(h) == [NoRet EXCEPT !.kind = "return", !.h = h]
\* AttributeError(f"'{type(self._client).__name__}' object has no attribute '{name}'")
AttributeError(client, name) ==
    [NoRet EXCEPT !.kind = "raise", !.exc = "AttributeError",
                  !.tname = TypeName(client), !.name = name]

NoLoc ==
    [pid |-> <<>>, name |-> <<>>, attr |-> NoAttr, sub |-> EmptyMap, h |-> NoHandle,
     via |-> "-"]

NoError == [type |-> "-", msg |-> "-", code |-> "-", codeval |-> "-"]

\* the locals of wrapped() before line 109
NoCall ==
    [w |-> NoHandle, given_args |-> <<>>, given_kwargs |-> [k \in {} |-> "-"],
     args |-> <<>>, kwargs |-> [k \in {} |-> "-"],
     customer_id |-> "-", track_usage |-> "-", custom_metadata |-> "-",
     request_id |-> "-", start_time |-> 0, end_time |-> 0,
     error_occurred |-> FALSE, error_type |-> "None", error_code |-> "None",
     error_message |-> "None", result |-> "-", exc |-> NoError, tracker |-> NoAttr]

\* a thread starts its next operation once the previous one has completed
Ready(t) == pc[t] \in {"idle", "done"}

\* the frame of the thread's previous call is gone when it moves on
DropFrame(t) ==
    /\ call' = [call EXCEPT ![t] = NoCall]
    /\ mlog' = [mlog EXCEPT ![t] = <<>>]
    /\ tlog' = [tlog EXCEPT ![t] = <<>>]
    /\ slog' = [slog EXCEPT ![t] = <<>>]
    /\ clock' = clock
    /\ context' = context

----------------------------------------------------------------------------
(* TrackedProxy.__getattr__, one step per statement that reads or writes   *)
(* shared state: another thread may run between any two of them.           *)

\* `if sub_track_methods:` of line 80, the truth value of a dict, taken for
\* true whatever the dict holds
DictAlwaysTruthy(d) == TRUE

\* `if sub_track_methods:` of line 80: a dict is true unless it is empty
DictTruthy(d) == DOMAIN d # {}

\* which branch of lines 63-72 handles attr, by the table tm read at line 63
Classify(tm, attr, name) ==
    IF Callable(attr) /\ name \in DOMAIN tm
    THEN "wrap"
    ELSE IF HasDict(attr) /\ ~IsPrimitive(attr)
    THEN "object"
    ELSE "plain"

\* the names normal attribute lookup finds on the proxy: its instance
\* attributes (those of __init__, lines 39-42, and those assigned under a
\* private name since) and the methods of its class, for which
\* _wrap_method stands
HasOwn(p, name) == name \in DOMAIN p.extra \cup OwnFields \cup {nWrapMethod}

\* what the lookup returns on the proxy pid, whose fields are p
OwnAttr(pid, p, name) ==
    IF name \in DOMAIN p.extra THEN p.extra[name]
    ELSE IF name = nClientField THEN p.client
    ELSE IF name = nTrackerField THEN p.tracker
    ELSE IF name = nTrackMethodsField THEN TrackMethodsDict(pid)
    ELSE IF name = nTrackedAttributesField THEN TrackedAttributesDict(pid)
    ELSE WrapMethodBound(pid, p.binds + 1)

\* proxy.name: an attribute of the proxy object itself is found by normal
\* lookup; otherwise __getattr__ runs and first consults the memo cache
GetAttrCheck(t, pid, name) ==
    /\ Ready(t)
    /\ pid \in known
    /\ LET p == proxies[pid] IN
       IF HasOwn(p, name)
       THEN /\ name = nWrapMethod => p.binds < MaxBinds
            /\ ret' = [ret EXCEPT ![t] = Returned(Plain(OwnAttr(pid, p, name)))]
            /\ loc' = [loc EXCEPT ![t] =
                          [NoLoc EXCEPT !.pid = pid, !.name = name, !.via = "own"]]
            /\ pc' = [pc EXCEPT ![t] = "done"]
            /\ proxies' = IF name = nWrapMethod
                          THEN [proxies EXCEPT ![pid].binds = @ + 1]
                          ELSE proxies
       ELSE IF name \in DOMAIN p.tracked_attributes
       THEN /\ ret' = [ret EXCEPT ![t] = Returned(p.tracked_attributes[name])]
            /\ loc' = [loc EXCEPT ![t] =
                          [NoLoc EXCEPT !.pid = pid, !.name = name, !.via = "hit"]]
            /\ pc' = [pc EXCEPT ![t] = "done"]
            /\ proxies' = proxies
       ELSE /\ ret' = [ret EXCEPT ![t] = NoRet]
            /\ loc' = [loc EXCEPT ![t] =
                          [NoLoc EXCEPT !.pid = pid, !.name = name, !.via = "miss"]]
            /\ pc' = [pc EXCEPT ![t] = "ga_fetch"]
            /\ proxies' = proxies
    /\ DropFrame(t)
    /\ UNCHANGED <<attrs, known, setCount, missed>>

\* a fetch that memoizes the absence before raising
GetAttrFetchCachesAbsence(t) ==
    /\ pc[t] = "ga_fetch"
    /\ LET p == proxies[loc[t].pid]
           attr == PyGetAttr(attrs, p.client, loc[t].name) IN
       IF attr = NoAttr
       THEN /\ ret' = [ret EXCEPT ![t] = AttributeError(p.client, loc[t].name)]
            /\ missed' = missed \cup {<<loc[t].pid, loc[t].name>>}
            /\ pc' = [pc EXCEPT ![t] = "done"]
            /\ loc' = loc
            /\ proxies' = [proxies EXCEPT ![loc[t].pid].tracked_attributes =
                              (loc[t].name :> NoHandle) @@ @]
       ELSE /\ loc' = [loc EXCEPT ![t].attr = attr]
            /\ pc' = [pc EXCEPT ![t] = "ga_build"]
            /\ UNCHANGED <<ret, missed, proxies>>
    /\ UNCHANGED <<attrs, known, setCount, callVars>>

\* lines 54-60: attr = getattr(self._client, name), or AttributeError
GetAttrFetch(t) ==
    /\ pc[t] = "ga_fetch"
    /\ LET p == proxies[loc[t].pid]
           attr == PyGetAttr(attrs, p.client, loc[t].name) IN
       IF attr = NoAttr
       THEN /\ ret' = [ret EXCEPT ![t] = AttributeError(p.client, loc[t].name)]
            /\ missed' = missed \cup {<<loc[t].pid, loc[t].name>>}
            /\ pc' = [pc EXCEPT ![t] = "done"]
            /\ loc' = loc
       ELSE /\ loc' = [loc EXCEPT ![t].attr = attr]
            /\ pc' = [pc EXCEPT ![t] = "ga_build"]
            /\ UNCHANGED <<ret, missed>>
    /\ UNCHANGED <<attrs, proxies, known, setCount, callVars>>

\* KeyError(name)
KeyError(name) == [NoRet EXCEPT !.kind = "raise", !.exc = "KeyError", !.name = name]

\* lines 63, 69-71: choose the branch by the table as it is now; keep attr,
\* or go on to call _wrap_method (line 64), or go on to derive the table of
\* a child proxy (line 74).  The calls of callable, hasattr and isinstance
\* let other threads run before the next read of one of the proxy's fields.
GetAttrBuild(t) ==
    /\ pc[t] = "ga_build"
    /\ LET p == proxies[loc[t].pid]
           branch == Classify(p.track_methods, loc[t].attr, loc[t].name) IN
       /\ loc' = IF branch = "plain"
                 THEN [loc EXCEPT ![t].h = Plain(loc[t].attr)]
                 ELSE loc
       /\ pc' = [pc EXCEPT ![t] = CASE branch = "wrap" -> "ga_wrap"
                                     [] branch = "object" -> "ga_sub"
                                     [] OTHER -> "ga_store"]
    /\ UNCHANGED <<attrs, proxies, known, setCount, ret, missed, callVars>>

\* lines 74-80: sub_track_methods is derived from the table as it is when
\* line 76 reads self._track_methods; if it is empty attr is kept
GetAttrSub(t) ==
    /\ pc[t] = "ga_sub"
    /\ LET p == proxies[loc[t].pid]
           sub == SubTrackMethods(p.track_methods, loc[t].name) IN
       IF DictTruthy(sub)
       THEN /\ loc' = [loc EXCEPT ![t].sub = sub]
            /\ pc' = [pc EXCEPT ![t] = "ga_child"]
       ELSE /\ loc' = [loc EXCEPT ![t].h = Plain(loc[t].attr)]
            /\ pc' = [pc EXCEPT ![t] = "ga_store"]
    /\ UNCHANGED <<attrs, proxies, known, setCount, ret, missed, callVars>>

\* line 81: TrackedProxy(attr, self._tracker, sub_track_methods), with the
\* tracker the proxy has when the line reads self._tracker
GetAttrChild(t) ==
    /\ pc[t] = "ga_child"
    /\ LET pid == loc[t].pid
           p == proxies[pid]
           id == NewId(pid, loc[t].name, t, p.caches) IN
       /\ loc' = [loc EXCEPT ![t].h = ProxyHandle(loc[t].attr, id)]
       /\ proxies' = proxies @@ (id :> NewProxy(loc[t].attr, p.tracker, loc[t].sub))
    /\ pc' = [pc EXCEPT ![t] = "ga_store"]
    /\ UNCHANGED <<attrs, known, setCount, ret, missed, callVars>>

\* lines 64, 104-189: _wrap_method reads self._track_methods again (line
\* 106), after the call has let other threads run: the table may be
\* another one than the one line 63 tested, and the name not in it
GetAttrWrap(t) ==
    /\ pc[t] = "ga_wrap"
    /\ LET pid == loc[t].pid
           p == proxies[pid]
           name == loc[t].name
           id == NewId(pid, name, t, p.caches) IN
       IF name \in DOMAIN p.track_methods
       THEN /\ loc' = [loc EXCEPT ![t].h =
                          WrapMethod(pid, p.track_methods, loc[t].attr, name, id)]
            /\ pc' = [pc EXCEPT ![t] = "ga_store"]
            /\ ret' = ret
       ELSE /\ ret' = [ret EXCEPT ![t] = KeyError(name)]
            /\ pc' = [pc EXCEPT ![t] = "done"]
            /\ loc' = loc
    /\ UNCHANGED <<attrs, proxies, known, setCount, missed, callVars>>

\* lines 65-66, 82-83, 86-87: self._tracked_attributes[name] = ...; return it
GetAttrStore(t) ==
    /\ pc[t] = "ga_store"
    /\ LET pid == loc[t].pid
           h == loc[t].h IN
       /\ proxies' = [proxies EXCEPT ![pid].tracked_attributes =
                         (loc[t].name :> h) @@ @]
       /\ known' = IF h.h = "proxy" THEN known \cup {h.pid} ELSE known
       /\ ret' = [ret EXCEPT ![t] = Returned(h)]
    /\ pc' = [pc EXCEPT ![t] = "done"]
    /\ UNCHANGED <<attrs, setCount, loc, missed, callVars>>

----------------------------------------------------------------------------
(* TrackedProxy.__setattr__ *)

\* the items of a dict value
DictItems(value) == EmptyMap

\* the statement returned without a value
ReturnedNone == [NoRet EXCEPT !.kind = "return", !.value = "None"]

\* setattr(obj, name, value): the heap afterwards; an object that takes no
\* attributes raises AttributeError and nothing is assigned
SetAttrOn(heap, obj, name, value) ==
    IF AcceptsAttrs(obj) /\ obj.oid \in DOMAIN heap
    THEN [heap EXCEPT ![obj.oid] = (name :> value) @@ @]
    ELSE heap

\* object.__setattr__(self, name, value), line 92: the proxy afterwards.
\* The names of __init__ are the proxy's target, sink, table and memo
\* cache themselves (a dict assigned as table or cache is also kept as the
\* object a later read of the name returns); any other name is one more
\* instance attribute.
StoreOwn(p, name, value) ==
    IF name = nClientField THEN [p EXCEPT !.client = value]
    ELSE IF name = nTrackerField THEN [p EXCEPT !.tracker = value]
    ELSE IF name = nTrackMethodsField
    THEN [p EXCEPT !.track_methods = DictItems(value), !.extra = (name :> value) @@ @]
    ELSE IF name = nTrackedAttributesField
    THEN [p EXCEPT !.tracked_attributes = DictItems(value), !.caches = @ + 1,
                   !.extra = (name :> value) @@ @]
    ELSE [p EXCEPT !.extra = (name :> value) @@ @]

\* an assignment of a public name that also forgets what the proxy had
\* memoized under it
SetAttrInvalidates(t, pid, name, value) ==
    /\ Ready(t)
    /\ pid \in known
    /\ setCount' = setCount + 1
    /\ IF StartsWith(name, <<"_">>)
       THEN /\ proxies' = [proxies EXCEPT ![pid] = StoreOwn(@, name, value)]
            /\ attrs' = attrs
            /\ ret' = [ret EXCEPT ![t] = ReturnedNone]
       ELSE /\ attrs' = SetAttrOn(attrs, proxies[pid].client, name, value)
            /\ proxies' = [proxies EXCEPT ![pid].tracked_attributes =
                              [n \in DOMAIN @ \ {name} |-> @[n]]]
            /\ ret' = [ret EXCEPT ![t] =
                          IF AcceptsAttrs(proxies[pid].client)
                          THEN ReturnedNone
                          ELSE AttributeError(proxies[pid].client, name)]
    /\ pc' = [pc EXCEPT ![t] = "done"]
    /\ loc' = [loc EXCEPT ![t] =
                  [NoLoc EXCEPT !.pid = pid, !.name = name, !.attr = value,
                                !.via = "set"]]
    /\ DropFrame(t)
    /\ UNCHANGED <<known, missed>>

\* an assignment that forwards every name to the target
SetAttrAlwaysForwards(t, pid, name, value) ==
    /\ Ready(t)
    /\ pid \in known
    /\ setCount' = setCount + 1
    /\ attrs' = SetAttrOn(attrs, proxies[pid].client, name, value)
    /\ proxies' = proxies
    /\ pc' = [pc EXCEPT ![t] = "done"]
    /\ loc' = [loc EXCEPT ![t] =
                  [NoLoc EXCEPT !.pid = pid, !.name = name, !.attr = value,
                                !.via = "set"]]
    /\ ret' = [ret EXCEPT ![t] =
                  IF AcceptsAttrs(proxies[pid].client)
                  THEN ReturnedNone
                  ELSE AttributeError(proxies[pid].client, name)]
    /\ DropFrame(t)
    /\ UNCHANGED <<known, missed>>

\* lines 89-94.  A dict-valued field of the proxy is assigned dicts only,
\* and the methods of the class are not assigned.  The frame keeps the
\* name and the value of the call.
SetAttr(t, pid, name, value) ==
    /\ Ready(t)
    /\ pid \in known
    /\ name \in {nTrackMethodsField, nTrackedAttributesField} => value.kind = "dict"
    /\ name # nWrapMethod
    /\ setCount' = setCount + 1
    /\ IF StartsWith(name, <<"_">>)
       THEN \* object.__setattr__(self, name, value)
            /\ proxies' = [proxies EXCEPT ![pid] = StoreOwn(@, name, value)]
            /\ attrs' = attrs
            /\ ret' = [ret EXCEPT ![t] = ReturnedNone]
       ELSE \* setattr(self._client, name, value)
            /\ attrs' = SetAttrOn(attrs, proxies[pid].client, name, value)
            /\ proxies' = proxies
            /\ ret' = [ret EXCEPT ![t] =
                          IF AcceptsAttrs(proxies[pid].client)
                          THEN ReturnedNone
                          ELSE AttributeError(proxies[pid].client, name)]
    /\ pc' = [pc EXCEPT ![t] = "done"]
    /\ loc' = [loc EXCEPT ![t] =
                  [NoLoc EXCEPT !.pid = pid, !.name = name, !.attr = value,
                                !.via = "set"]]
    /\ DropFrame(t)
    /\ UNCHANGED <<known, missed>>

----------------------------------------------------------------------------
(* What the caller does with a passthrough handle: the proxy returned the  *)
(* member itself (line 87), so the proxy takes no part in it.              *)

\* obj.name on the object itself
PlainGetAttr(t, name) ==
    /\ pc[t] = "done"
    /\ ret[t].kind = "return"
    /\ ret[t].h.h = "plain"
    /\ ret[t].h.v.kind = "obj"
    /\ LET obj == ret[t].h.v
           attr == PyGetAttr(attrs, obj, name) IN
       /\ ret' = [ret EXCEPT ![t] =
                     IF attr = NoAttr THEN AttributeError(obj, name)
                     ELSE Returned(Plain(attr))]
       /\ loc' = [loc EXCEPT ![t] = [NoLoc EXCEPT !.name = name, !.via = "direct"]]
    /\ DropFrame(t)
    /\ UNCHANGED <<attrs, proxies, known, setCount, pc, missed>>

----------------------------------------------------------------------------
(* The wrapper TrackedProxy._wrap_method returns: wrapped               *)

\* uuid.uuid4() draws one of these
UUIDs == {"uuid-a", "uuid-b"}

\* what the real method does: it returns a result, or raises an instance of
\* Exception that has no `code`, a callable `code` (grpc.RpcError.code()),
\* or a `code` that is a plain attribute (an integer status).  codeval is
\* the value of `code` or of calling it: a StatusCode member, an integer.
Results == {"result"}
PlainError == [type |-> "Exception", msg |-> "API call failed", code |-> "absent", codeval |-> "-"]
RpcError == [type |-> "RpcError", msg |-> "unavailable", code |-> "method", codeval |-> "enum:StatusCode.UNAVAILABLE"]
StatusError == [type |-> "APIError", msg |-> "not found", code |-> "attribute", codeval |-> "int:404"]
Errors == {PlainError, RpcError, StatusError}
\* 'int' object is not callable, raised by e.code() when code is no method
NotCallableError == [type |-> "TypeError", msg |-> "object is not callable", code |-> "absent", codeval |-> "-"]
\* what a failing tracker_func raises
TrackingError == [type |-> "Exception", msg |-> "Tracking failed", code |-> "absent", codeval |-> "-"]

\* str(v) of a value that is no exception
StrOfValue(v) ==
    CASE v = "enum:StatusCode.UNAVAILABLE" -> "StatusCode.UNAVAILABLE"
      [] v = "int:404" -> "404"
      [] OTHER -> v

\* hasattr(e, 'code')
HasCode(e) == e.code # "absent"
\* str(e)
Str(e) == e.msg

\* bool(v) of a token: None, False, an empty dict and an empty list are false
Truthy(v) == v \notin {"None", "False", "{}", "[]"}

\* the keyword arguments a caller passes
KwValues(k) ==
    IF k = "customer_id" THEN {"None", "customer-123"}
    ELSE IF k = "track_usage" THEN {"True", "False"}
    ELSE IF k = "metadata" THEN {"None", "{tag}"}
    ELSE {"value"}
KwKeys == {"customer_id", "track_usage", "metadata", "kwarg"}
ReservedKeys == {"customer_id", "track_usage", "metadata"}
KwargsInputs ==
    UNION {{kw \in [ks -> UNION {KwValues(k) : k \in ks}] :
                \A k \in ks : kw[k] \in KwValues(k)} : ks \in SUBSET KwKeys}
ArgsInputs == {<<>>, <<"arg1", "arg2">>}

\* a pop whose default is always None: the unset sentinel is lost
PopNoneDefault(kwargs, key, default) ==
    IF key \in DOMAIN kwargs THEN kwargs[key] ELSE "None"

\* kwargs.pop(key, default): the value popped
Pop(kwargs, key, default) == IF key \in DOMAIN kwargs THEN kwargs[key] ELSE default
\* a read that leaves the key in kwargs (kwargs.get in place of kwargs.pop)
WithoutGet(kwargs, key) == kwargs

\* kwargs after kwargs.pop(key, ...)
Without(kwargs, key) == [k \in DOMAIN kwargs \ {key} |-> kwargs[k]]

----------------------------------------------------------------------------
(* The built-in extraction functions track_generate_content and            *)
(* track_count_tokens.  A response object is a token whose attributes      *)
(* ObjAttrs lists: an object with exactly these attributes, or a Mock,     *)
(* which has every other attribute too, each a Mock again; a str the code  *)
(* slices is a record holding its characters; a dict is a function from    *)
(* keys to values.                                                         *)

NoItems == [k \in {} |-> "-"]

\* the attributes set on the objects the real methods return
ObjAttrs(o) ==
    CASE o = "resp_full" ->
            [usage_metadata |-> "usage_15_25", id |-> "resp_123",
             safety_ratings |-> "None", candidates |-> "[cand_stop]"]
      [] o = "resp_bare" -> [usage_metadata |-> "usage_bare", candidates |-> "[]"]
      [] o = "resp_nousage" -> [id |-> "resp_456"]
      [] o = "resp_broken" -> [usage_metadata |-> "usage_broken"]
      [] o = "resp_mock" -> [usage_metadata |-> "usage_mock"]
      [] o = "count_15" -> [total_tokens |-> 15]
      [] o = "usage_15_25" -> [prompt_token_count |-> 15, candidates_token_count |-> 25]
      [] o = "usage_broken" -> [candidates_token_count |-> 25]
      [] o = "usage_mock" -> [prompt_token_count |-> "mock"]
      [] o = "cand_stop" -> [finish_reason |-> "STOP"]
      [] OTHER -> NoItems

\* the attribute reads that raise an Exception: a property of the object
\* that fails when it is read
ReadRaises(o, name) ==
    \/ o = "usage_broken" /\ name = "prompt_token_count"
    \/ o = "count_broken" /\ name = "total_tokens"

\* l[0] raises: a Mock is no sequence (TypeError, "'Mock' object is not
\* subscriptable"); resp_mock is the response of the extraction failure
\* test, a Mock every attribute of which is a Mock
SubscriptRaises(l) == l = "mock"

\* what generate_content and count_tokens of the client return
GeminiResults ==
    {"resp_full", "resp_bare", "resp_nousage", "resp_broken", "resp_mock",
     "count_15", "count_broken", "None"}

\* what the real method returns
ResultsOf(method) ==
    IF method \in {GenerateContentFunc, CountTokensFunc} THEN GeminiResults ELSE Results

\* a read of an attribute the object never has
GetAttrOrMisnamed(o, name, default) == default

\* unittest.mock.Mock objects: resp_full and count_15 are the fixtures
\* mock_gemini_response and mock_count_tokens_response, resp_mock is the
\* response of the extraction failure test, usage_15_25 and usage_mock are
\* their usage_metadata, cand_stop is the candidate of resp_full, and mock
\* is any Mock a read of an attribute that was not set creates
IsMock(o) ==
    o \in {"resp_full", "usage_15_25", "cand_stop", "count_15", "resp_mock",
           "usage_mock", "mock"}

\* hasattr(o, name): a Mock has every attribute
HasAttr(o, name) == IsMock(o) \/ name \in DOMAIN ObjAttrs(o)
\* o.name of an object that has the attribute
Attr(o, name) == IF name \in DOMAIN ObjAttrs(o) THEN ObjAttrs(o)[name] ELSE "mock"
\* getattr(o, name, default)
GetAttrOr(o, name, default) == IF HasAttr(o, name) THEN Attr(o, name) ELSE default
\* the elements of a list
ListItems(l) == IF l = "[cand_stop]" THEN <<"cand_stop">> ELSE <<>>

\* the dict a metadata value is
MetadataItems(m) ==
    CASE m = "{tag}" -> [tag |-> "value"]
      [] m = "{operation,response_id,tag}" ->
            [operation |-> "custom", response_id |-> "mine", tag |-> "value"]
      [] OTHER -> NoItems

\* an update in which the keys already present keep their values
UpdateKeepsOld(d, other) ==
    [k \in DOMAIN d \cup DOMAIN other |-> IF k \in DOMAIN d THEN d[k] ELSE other[k]]

\* d.update(other): the dict afterwards
Update(d, other) ==
    [k \in DOMAIN d \cup DOMAIN other |-> IF k \in DOMAIN other THEN other[k] ELSE d[k]]

\* a str, by its characters
PyStr(chars) == [type |-> "str", chars |-> chars]
ModelsPrefix == <<"m", "o", "d", "e", "l", "s", "/">>
Unknown == PyStr(<<"u", "n", "k", "n", "o", "w", "n">>)
\* the 7 of model[7:]
PrefixCut == 7

\* the model name passed on as the caller gave it
ModelNameKeepsPrefix(kwargs) ==
    IF "model" \in DOMAIN kwargs THEN kwargs["model"] ELSE Unknown

\* lines 222-224 and 288-290: kwargs.get("model", "unknown") without a
\* leading "models/"
ModelName(kwargs) ==
    LET model == IF "model" \in DOMAIN kwargs THEN kwargs["model"] ELSE Unknown IN
    IF model.type = "str" /\ StartsWith(model.chars, ModelsPrefix)
    THEN PyStr(SliceFrom(model.chars, PrefixCut))
    ELSE model

\* get_effective_customer_id(customer_id): the override if one was given
\* (None included), the ambient customer id if it is the unset sentinel
GetEffectiveCustomerId(customer_id, ambient) ==
    IF customer_id = "Ellipsis" THEN ambient ELSE customer_id

\* the call without the error details of the request
UsageEventDropsError(a, effective_customer_id, model, input_tokens, output_tokens, metadata) ==
    [customer_id |-> effective_customer_id,
     model |-> model,
     input_tokens |-> input_tokens,
     output_tokens |-> output_tokens,
     provider |-> "google",
     metadata |-> metadata,
     request_start_time |-> a.request_start_time,
     request_end_time |-> a.request_end_time,
     error_occurred |-> FALSE,
     error_type |-> "None",
     error_code |-> "None",
     error_message |-> "None",
     request_id |-> a.request_id]

\* tracker.track_usage_background(...): the keyword arguments of the call
UsageEvent(a, effective_customer_id, model, input_tokens, output_tokens, metadata) ==
    [customer_id |-> effective_customer_id,
     model |-> model,
     input_tokens |-> input_tokens,
     output_tokens |-> output_tokens,
     provider |-> "google",
     metadata |-> metadata,
     request_start_time |-> a.request_start_time,
     request_end_time |-> a.request_end_time,
     error_occurred |-> a.error_occurred,
     error_type |-> a.error_type,
     error_code |-> a.error_code,
     error_message |-> a.error_message,
     request_id |-> a.request_id]

\* lines 227-238: one of the reads of the result, or result.candidates[0],
\* raises
GenerateContentReadRaises(result) ==
    /\ Truthy(result)
    /\ \/ ReadRaises(result, "usage_metadata")
       \/ /\ HasAttr(result, "usage_metadata")
          /\ LET usage_metadata == Attr(result, "usage_metadata") IN
             \/ ReadRaises(usage_metadata, "prompt_token_count")
             \/ ReadRaises(usage_metadata, "candidates_token_count")
             \/ ReadRaises(result, "id")
             \/ ReadRaises(result, "safety_ratings")
             \/ ReadRaises(result, "candidates")
             \/ /\ HasAttr(result, "candidates")
                /\ Truthy(Attr(result, "candidates"))
                /\ SubscriptRaises(Attr(result, "candidates"))

\* lines 293-295: one of the reads of the result raises
CountTokensReadRaises(result) ==
    Truthy(result) /\ ReadRaises(result, "total_tokens")

\* track_generate_content, lines 213-257: the calls it makes of
\* tracker.track_usage_background; an exception raised on the way ends the
\* try block before the call
TrackGenerateContent(a, ambient) ==
    LET effective_customer_id == GetEffectiveCustomerId(a.customer_id, ambient)
        result == a.result
        has_usage == Truthy(result) /\ HasAttr(result, "usage_metadata")
        usage_metadata == GetAttrOr(result, "usage_metadata", "None")
        input_tokens ==
            IF has_usage THEN GetAttrOr(usage_metadata, "prompt_token_count", 0) ELSE 0
        output_tokens ==
            IF has_usage THEN GetAttrOr(usage_metadata, "candidates_token_count", 0) ELSE 0
        candidates == GetAttrOr(result, "candidates", "None")
        extracted ==
            IF has_usage
            THEN [response_id |-> GetAttrOr(result, "id", "None"),
                  safety_ratings |-> GetAttrOr(result, "safety_ratings", "None"),
                  finish_reason |->
                      IF HasAttr(result, "candidates") /\ Truthy(candidates)
                      THEN GetAttrOr(ListItems(candidates)[1], "finish_reason", "None")
                      ELSE "None"]
            ELSE NoItems
        metadata ==
            IF Truthy(a.custom_metadata)
            THEN Update(extracted, MetadataItems(a.custom_metadata))
            ELSE extracted IN
    IF ~Truthy(effective_customer_id)
    THEN <<>>
    ELSE IF GenerateContentReadRaises(result)
    THEN <<>>
    ELSE <<UsageEvent(a, effective_customer_id, ModelName(a.kwargs),
                      input_tokens, output_tokens, metadata)>>

\* track_count_tokens without the return of line 285
TrackCountTokensAlwaysEmits(a, ambient) ==
    LET effective_customer_id == GetEffectiveCustomerId(a.customer_id, ambient)
        has_total == Truthy(a.result) /\ HasAttr(a.result, "total_tokens")
        extracted ==
            IF has_total
            THEN [operation |-> "count_tokens",
                  total_tokens |-> Attr(a.result, "total_tokens")]
            ELSE [operation |-> "count_tokens"] IN
    <<UsageEvent(a, effective_customer_id, ModelName(a.kwargs),
                 IF has_total THEN Attr(a.result, "total_tokens") ELSE 0, 0,
                 IF Truthy(a.custom_metadata)
                 THEN Update(extracted, MetadataItems(a.custom_metadata))
                 ELSE extracted)>>

\* track_count_tokens, lines 280-314: the calls it makes of
\* tracker.track_usage_background
TrackCountTokens(a, ambient) ==
    LET effective_customer_id == GetEffectiveCustomerId(a.customer_id, ambient)
        result == a.result
        has_total == Truthy(result) /\ HasAttr(result, "total_tokens")
        input_tokens == IF has_total THEN Attr(result, "total_tokens") ELSE 0
        extracted ==
            IF has_total
            THEN [operation |-> "count_tokens", total_tokens |-> Attr(result, "total_tokens")]
            ELSE [operation |-> "count_tokens"]
        metadata ==
            IF Truthy(a.custom_metadata)
            THEN Update(extracted, MetadataItems(a.custom_metadata))
            ELSE extracted IN
    IF ~Truthy(effective_customer_id)
    THEN <<>>
    ELSE IF CountTokensReadRaises(result)
    THEN <<>>
    ELSE <<UsageEvent(a, effective_customer_id, ModelName(a.kwargs),
                      input_tokens, 0, metadata)>>

BuiltinTrackers == {"track_generate_content", "track_count_tokens"}

\* tracker_func(**a): the sink calls made by the extraction function the
\* table names; the mock extraction functions of the tests make none
TrackerFunc(a, ambient) ==
    IF a.tf = "track_generate_content" THEN TrackGenerateContent(a, ambient)
    ELSE IF a.tf = "track_count_tokens" THEN TrackCountTokens(a, ambient)
    ELSE <<>>

\* what can go wrong inside a built-in: get_effective_customer_id raises,
\* or tracker.track_usage_background does
Faults(tf) == IF tf \in BuiltinTrackers THEN {"none", "resolve", "sink"} ELSE {"none"}

\* the sink calls of tracker_func(**a) when get_effective_customer_id may raise
SinkCalls(a, ambient, fault) ==
    IF fault = "resolve" THEN <<>> ELSE TrackerFunc(a, ambient)

\* an Exception is raised inside the try block of the built-in
Thrown(a, ambient, fault) ==
    /\ a.tf \in BuiltinTrackers
    /\ \/ fault = "resolve"
       \/ /\ fault # "resolve"
          /\ Truthy(GetEffectiveCustomerId(a.customer_id, ambient))
          /\ IF a.tf = "track_generate_content"
             THEN GenerateContentReadRaises(a.result)
             ELSE CountTokensReadRaises(a.result)
       \/ fault = "sink" /\ SinkCalls(a, ambient, fault) # <<>>

\* a built-in whose exception leaves it
BuiltinEndsUncaught(thrown) == IF thrown THEN TrackingError ELSE NoError

\* lines 259-260 and 316-317: except Exception: logger.warning(...)
BuiltinEnds(thrown) == NoError

\* how tracker_func ends: a built-in catches every Exception itself, a mock
\* returns or raises
TrackerOutcomes(tf, thrown) ==
    IF tf \in BuiltinTrackers THEN {BuiltinEnds(thrown)} ELSE {NoError, TrackingError}

----------------------------------------------------------------------------
(* wrapped, statement by statement *)

\* lines 109-118, for a call of the wrapper w; given_args and given_kwargs
\* keep what the caller passed
CallEnter(w, args, kwargs, uuid, now) ==
    [NoCall EXCEPT
        !.w = w,
        !.given_args = args,
        !.given_kwargs = kwargs,
        !.args = args,
        !.customer_id = Pop(kwargs, "customer_id", "Ellipsis"),
        !.track_usage = Pop(kwargs, "track_usage", "True"),
        !.custom_metadata = Pop(kwargs, "metadata", "None"),
        !.kwargs = Without(Without(Without(kwargs, "customer_id"), "track_usage"),
                           "metadata"),
        !.request_id = uuid,
        !.start_time = now]

\* the thread calls the wrapper it has just obtained: proxy.g(...)
CallBegin(t, args, kwargs) ==
    /\ pc[t] = "done"
    /\ ret[t].kind = "return"
    /\ ret[t].h.h = "wrapped"
    /\ \E uuid \in UUIDs :
          call' = [call EXCEPT ![t] = CallEnter(ret[t].h, args, kwargs, uuid, clock)]
    /\ mlog' = [mlog EXCEPT ![t] = <<>>]
    /\ tlog' = [tlog EXCEPT ![t] = <<>>]
    /\ slog' = [slog EXCEPT ![t] = <<>>]
    /\ ret' = [ret EXCEPT ![t] = NoRet]
    /\ pc' = [pc EXCEPT ![t] = "call_invoke"]
    /\ UNCHANGED <<attrs, proxies, known, setCount, loc, missed, clock, context>>

\* line 121: result = method(...)
CallInvoke(t) ==
    /\ pc[t] = "call_invoke"
    /\ mlog' = [mlog EXCEPT ![t] =
                   Append(@, [method |-> call[t].w.v, args |-> call[t].args,
                              kwargs |-> call[t].kwargs])]
    /\ \/ \E r \in ResultsOf(call[t].w.v) :
             /\ call' = [call EXCEPT ![t].result = r]
             /\ pc' = [pc EXCEPT ![t] = "call_ok"]
       \/ \E e \in Errors :
             /\ call' = [call EXCEPT ![t].exc = e]
             /\ pc' = [pc EXCEPT ![t] = "call_exc"]
    /\ UNCHANGED <<attrs, proxies, known, setCount, loc, ret, missed, clock, tlog, slog, context>>

\* lines 122-124: end_time = time.time(); if track_usage
CallEndOk(t) ==
    /\ pc[t] = "call_ok"
    /\ call' = [call EXCEPT ![t].end_time = clock]
    /\ pc' = [pc EXCEPT ![t] =
                 IF Truthy(call[t].track_usage) THEN "call_args" ELSE "call_return"]
    /\ UNCHANGED <<attrs, proxies, known, setCount, loc, ret, missed, clock, mlog, tlog, slog, context>>

\* the exception was raised by a statement of the except block itself and
\* leaves wrapped() in place of the one being handled
Escapes(t, e) ==
    /\ ret' = [ret EXCEPT ![t] = [NoRet EXCEPT !.kind = "raise", !.exc = e]]
    /\ pc' = [pc EXCEPT ![t] = "done"]

\* an except block that calls the real method a second time before it
\* gives up
CallEndExcRetries(t) ==
    /\ pc[t] = "call_exc"
    /\ IF Len(mlog[t]) < 2
       THEN /\ call' = [call EXCEPT ![t].exc = NoError]
            /\ pc' = [pc EXCEPT ![t] = "call_invoke"]
       ELSE /\ call' = [call EXCEPT ![t].end_time = clock, ![t].error_occurred = TRUE,
                                    ![t].error_message = Str(call[t].exc),
                                    ![t].error_type = "sdk_error"]
            /\ pc' = [pc EXCEPT ![t] =
                         IF Truthy(call[t].track_usage) THEN "call_args"
                         ELSE "call_return"]
    /\ UNCHANGED <<attrs, proxies, known, setCount, loc, ret, missed, clock, mlog, tlog, slog, context>>

\* lines 147-159: classify the exception; if track_usage
CallEndExc(t) ==
    /\ pc[t] = "call_exc"
    /\ LET e == call[t].exc
           c1 == [call[t] EXCEPT !.end_time = clock, !.error_occurred = TRUE,
                                 !.error_message = Str(e)] IN
       IF HasCode(e) /\ e.code # "method"
       THEN \* str(e.code()) with a code that is not callable
            /\ call' = [call EXCEPT ![t] = c1]
            /\ Escapes(t, NotCallableError)
       ELSE /\ call' = [call EXCEPT ![t] =
                          IF HasCode(e)
                          THEN [c1 EXCEPT !.error_code = StrOfValue(e.codeval),
                                          !.error_type = "grpc_error"]
                          ELSE [c1 EXCEPT !.error_type = "sdk_error"]]
            /\ pc' = [pc EXCEPT ![t] =
                         IF Truthy(call[t].track_usage) THEN "call_args"
                         ELSE "call_return"]
            /\ ret' = ret
    /\ UNCHANGED <<attrs, proxies, known, setCount, loc, missed, clock, mlog, tlog, slog, context>>

\* the keyword arguments of the tracker_func call, lines 126-141 and 161-176
TrackerArgs(c, tracker) ==
    [tf |-> c.w.tf,
     result |-> IF c.error_occurred THEN "None" ELSE c.result,
     customer_id |-> c.customer_id,
     tracker |-> tracker,
     method_name |-> c.w.name,
     args |-> c.args,
     kwargs |-> c.kwargs,
     custom_metadata |-> c.custom_metadata,
     request_start_time |-> c.start_time,
     request_end_time |-> c.end_time,
     error_occurred |-> c.error_occurred,
     error_type |-> c.error_type,
     error_code |-> c.error_code,
     error_message |-> c.error_message,
     request_id |-> c.request_id]

\* the tracker_func call of the success path without its own try/except:
\* its exception is caught by the except block of line 147 as if the real
\* method had raised it
CallTrackInOuterTry(t) ==
    /\ pc[t] = "call_track"
    /\ \E raised \in {NoError, TrackingError} :
          /\ tlog' = [tlog EXCEPT ![t] =
                         Append(@, [kw |-> TrackerArgs(call[t], call[t].tracker),
                                    raised |-> raised, fault |-> "none",
                                    thrown |-> raised # NoError,
                                    ambient |-> context])]
          /\ IF raised # NoError /\ ~call[t].error_occurred
             THEN /\ call' = [call EXCEPT ![t].exc = raised]
                  /\ pc' = [pc EXCEPT ![t] = "call_exc"]
             ELSE /\ call' = call
                  /\ pc' = [pc EXCEPT ![t] = "call_return"]
    /\ UNCHANGED <<attrs, proxies, known, setCount, loc, ret, missed, clock, mlog, slog, context>>

\* the tracker_func call without its try/except: its exception leaves wrapped()
CallTrackUnshielded(t) ==
    /\ pc[t] = "call_track"
    /\ \E raised \in {NoError, TrackingError} :
          /\ tlog' = [tlog EXCEPT ![t] =
                         Append(@, [kw |-> TrackerArgs(call[t], call[t].tracker),
                                    raised |-> raised, fault |-> "none",
                                    thrown |-> raised # NoError,
                                    ambient |-> context])]
          /\ IF raised = NoError
             THEN pc' = [pc EXCEPT ![t] = "call_return"] /\ ret' = ret
             ELSE Escapes(t, raised)
    /\ UNCHANGED <<attrs, proxies, known, setCount, loc, missed, clock, call, mlog, slog, context>>

\* lines 126-141 and 161-176: the arguments of the tracker_func call are
\* evaluated, self._tracker (lines 129, 164) being read from the proxy as
\* it is now; the call that follows lets other threads run before the
\* extraction function looks at anything
CallTrackArgs(t) ==
    /\ pc[t] = "call_args"
    /\ call' = [call EXCEPT ![t].tracker = proxies[call[t].w.pid].tracker]
    /\ pc' = [pc EXCEPT ![t] = "call_track"]
    /\ UNCHANGED <<attrs, proxies, known, setCount, loc, ret, missed, clock, mlog, tlog, slog, context>>

\* lines 125-143 and 160-178: try: tracker_func(...) except Exception: log.
\* The extraction function runs with the arguments evaluated before and
\* with the ambient customer id as it is when it looks it up (lines 215,
\* 282); it returns or raises, and either way wrapped() goes on.
CallTrack(t) ==
    /\ pc[t] = "call_track"
    /\ LET kw == TrackerArgs(call[t], call[t].tracker) IN
       \E fault \in Faults(kw.tf) :
          LET events == SinkCalls(kw, context, fault)
              thrown == Thrown(kw, context, fault) IN
          \* the sink raises only if it is called
          /\ fault = "sink" => events # <<>>
          /\ \E raised \in TrackerOutcomes(kw.tf, thrown) :
                tlog' = [tlog EXCEPT ![t] =
                            Append(@, [kw |-> kw, raised |-> raised, fault |-> fault,
                                       thrown |-> thrown, ambient |-> context])]
          /\ slog' = [slog EXCEPT ![t] =
                         @ \o [i \in 1..Len(events) |->
                                  [event |-> events[i], sink |-> kw.tracker,
                                   failed |-> fault = "sink"]]]
    /\ pc' = [pc EXCEPT ![t] = "call_return"]
    /\ UNCHANGED <<attrs, proxies, known, setCount, loc, ret, missed, clock, call, mlog, context>>

\* line 145: return result; line 180: raise
CallReturn(t) ==
    /\ pc[t] = "call_return"
    /\ ret' = [ret EXCEPT ![t] =
                  IF call[t].error_occurred
                  THEN [NoRet EXCEPT !.kind = "raise", !.exc = call[t].exc]
                  ELSE [NoRet EXCEPT !.kind = "return", !.value = call[t].result]]
    /\ pc' = [pc EXCEPT ![t] = "done"]
    /\ UNCHANGED <<attrs, proxies, known, setCount, loc, missed, clock, call, mlog, tlog, slog, context>>

\* the caller calls a function it got as a passthrough handle: the real
\* function runs with the arguments as given, wrapped() does not
PlainCall(t, args, kwargs) ==
    /\ pc[t] = "done"
    /\ ret[t].kind = "return"
    /\ ret[t].h.h = "plain"
    /\ Callable(ret[t].h.v)
    /\ mlog' = [mlog EXCEPT ![t] =
                   <<[method |-> ret[t].h.v, args |-> args, kwargs |-> kwargs]>>]
    /\ tlog' = [tlog EXCEPT ![t] = <<>>]
    /\ slog' = [slog EXCEPT ![t] = <<>>]
    /\ \/ \E r \in Results :
             /\ call' = [call EXCEPT ![t] =
                            [NoCall EXCEPT !.w = ret[t].h, !.given_args = args,
                                           !.given_kwargs = kwargs, !.args = args,
                                           !.kwargs = kwargs, !.result = r]]
             /\ ret' = [ret EXCEPT ![t] = [NoRet EXCEPT !.kind = "return", !.value = r]]
       \/ \E e \in Errors :
             /\ call' = [call EXCEPT ![t] =
                            [NoCall EXCEPT !.w = ret[t].h, !.given_args = args,
                                           !.given_kwargs = kwargs, !.args = args,
                                           !.kwargs = kwargs, !.exc = e]]
             /\ ret' = [ret EXCEPT ![t] = [NoRet EXCEPT !.kind = "raise", !.exc = e]]
    /\ UNCHANGED <<attrs, proxies, known, setCount, pc, loc, missed, clock, context>>

\* the caller calls a child proxy it got for a callable member: TrackedProxy
\* defines no __call__, so the call raises TypeError and the member is not
\* called
ProxyCall(t, args, kwargs) ==
    /\ pc[t] = "done"
    /\ ret[t].kind = "return"
    /\ ret[t].h.h = "proxy"
    /\ Callable(ret[t].h.v)
    /\ mlog' = [mlog EXCEPT ![t] = <<>>]
    /\ tlog' = [tlog EXCEPT ![t] = <<>>]
    /\ slog' = [slog EXCEPT ![t] = <<>>]
    /\ call' = [call EXCEPT ![t] =
                   [NoCall EXCEPT !.w = ret[t].h, !.given_args = args,
                                  !.given_kwargs = kwargs, !.args = args,
                                  !.kwargs = kwargs]]
    /\ ret' = [ret EXCEPT ![t] = [NoRet EXCEPT !.kind = "raise", !.exc = NotCallableError]]
    /\ UNCHANGED <<attrs, proxies, known, setCount, pc, loc, missed, clock, context>>

\* the caller sets or clears its ambient customer id
SetCustomerContext(t, customer_id) ==
    /\ Ready(t)
    /\ context # customer_id
    /\ context' = customer_id
    /\ call' = [call EXCEPT ![t] = NoCall]
    /\ mlog' = [mlog EXCEPT ![t] = <<>>]
    /\ tlog' = [tlog EXCEPT ![t] = <<>>]
    /\ slog' = [slog EXCEPT ![t] = <<>>]
    /\ ret' = [ret EXCEPT ![t] = [NoRet EXCEPT !.kind = "return", !.value = "None"]]
    /\ loc' = [loc EXCEPT ![t] = NoLoc]
    /\ pc' = [pc EXCEPT ![t] = "done"]
    /\ UNCHANGED <<attrs, proxies, known, setCount, missed, clock>>

\* the wall clock read by time.time() changes: it goes on, or it is set
\* back
Tick ==
    /\ \E now \in 0..MaxClock : now # clock /\ clock' = now
    /\ UNCHANGED <<attrs, proxies, known, setCount, pc, loc, ret, missed, call, mlog, tlog, slog, context>>

----------------------------------------------------------------------------
(* Specifications *)

Init ==
    /\ attrs = InitAttrs
    /\ proxies = (Root :> NewProxy(RootClient, TrackerObj, RootTable))
    /\ known = {Root}
    /\ setCount = 0
    /\ pc = [t \in Threads |-> "idle"]
    /\ loc = [t \in Threads |-> NoLoc]
    /\ ret = [t \in Threads |-> NoRet]
    /\ missed = {}
    /\ clock = 0
    /\ call = [t \in Threads |-> NoCall]
    /\ mlog = [t \in Threads |-> <<>>]
    /\ tlog = [t \in Threads |-> <<>>]
    /\ slog = [t \in Threads |-> <<>>]
    /\ context = "None"

\* Spec: threads resolve and assign attributes on shared proxies.
RaceNames(pid) == IF pid = Root THEN {nGen, nModels, nLate} ELSE {nCount}

Lookup(t) == \E pid \in known : \E name \in RaceNames(pid) : GetAttrCheck(t, pid, name)

Assign(t) ==
    /\ setCount < MaxSets
    /\ \E value \in SetValues : SetAttr(t, Root, nLate, value)

Next ==
    \E t \in Threads :
        \/ Lookup(t)
        \/ GetAttrFetch(t)
        \/ GetAttrBuild(t)
        \/ GetAttrSub(t)
        \/ GetAttrChild(t)
        \/ GetAttrWrap(t)
        \/ GetAttrStore(t)
        \/ Assign(t)

Spec == Init /\ [][Next]_vars

\* SpecSeq: one caller reads and assigns every kind of member.
Caller == "t1"

\* the names a caller reads on a proxy: the members of its target, one name
\* its target lacks, and a private name
SeqNames(pid) ==
    {n \in Names : PyGetAttr(InitAttrs, proxies[pid].client, n) # NoAttr}
        \cup {nLate, nPriv}

SeqLookup == \E pid \in known : \E name \in SeqNames(pid) : GetAttrCheck(Caller, pid, name)

\* the assignments of the caller: a new member, a new value of a primitive
\* member, a new function and a string for a tracked method, a function
\* and a string for the namespace the table has a dotted key under, and a
\* private name
SeqAssignments ==
    {<<nLate, NewFunc>>, <<nVer, NewStr>>, <<nGen, NewFunc>>, <<nGen, NewStr>>,
     <<nModels, NewFunc>>, <<nModels, NewStr>>, <<nPriv, NewStr>>}

SeqAssign ==
    /\ setCount < MaxSets
    /\ \E a \in SeqAssignments : SetAttr(Caller, Root, a[1], a[2])

NextSeq ==
    \/ SeqLookup
    \/ GetAttrFetch(Caller)
    \/ GetAttrBuild(Caller)
    \/ GetAttrSub(Caller)
    \/ GetAttrChild(Caller)
    \/ GetAttrWrap(Caller)
    \/ GetAttrStore(Caller)
    \/ SeqAssign

SpecSeq == Init /\ [][NextSeq]_vars

\* SpecOwn: a caller reads, besides members of the target, the proxy's own
\* attributes (its target, sink, table and memo cache), while another
\* thread assigns them, before, after or between the statements of a read.
\* The proxy is one a caller made around the client, or one as line 81
\* makes them around a bound method.
InitOwn ==
    /\ attrs = InitAttrs
    /\ \E client \in {RootClient, HookFunc} :
          proxies = (Root :> NewProxy(client, TrackerObj, RootTable))
    /\ known = {Root}
    /\ setCount = 0
    /\ pc = [t \in Threads |-> "idle"]
    /\ loc = [t \in Threads |-> NoLoc]
    /\ ret = [t \in Threads |-> NoRet]
    /\ missed = {}
    /\ clock = 0
    /\ call = [t \in Threads |-> NoCall]
    /\ mlog = [t \in Threads |-> <<>>]
    /\ tlog = [t \in Threads |-> <<>>]
    /\ slog = [t \in Threads |-> <<>>]
    /\ context = "None"

OwnNames == {nGen, nModels, nPriv, nWrapMethod} \cup OwnFields

\* the thread that assigns while the caller reads
Assigner == "t2"

OwnLookup == \E name \in OwnNames : GetAttrCheck(Caller, Root, name)

\* the assignments, the n-th of the run
OwnAssignments(n) ==
    {<<nGen, NewFunc>>, <<nPriv, NewStr>>, <<nClientField, ModelsObj>>,
     <<nTrackerField, NewStr>>, <<nTrackMethodsField, NewDict(n)>>,
     <<nTrackedAttributesField, NewDict(n)>>}

OwnAssign ==
    /\ setCount < MaxOwnSets
    /\ \E a \in OwnAssignments(setCount + 1) : SetAttr(Assigner, Root, a[1], a[2])

NextOwn ==
    \/ OwnLookup
    \/ GetAttrFetch(Caller)
    \/ GetAttrBuild(Caller)
    \/ GetAttrSub(Caller)
    \/ GetAttrChild(Caller)
    \/ GetAttrWrap(Caller)
    \/ GetAttrStore(Caller)
    \/ OwnAssign

SpecOwn == InitOwn /\ [][NextOwn]_vars

\* SpecCall: one caller resolves the tracked methods and calls them.
CallNames(pid) == IF pid = Root THEN {nGen, nModels} ELSE {nCount}

CallLookup == \E pid \in known : \E name \in CallNames(pid) : GetAttrCheck(Caller, pid, name)

CallStart == \E args \in ArgsInputs, kwargs \in KwargsInputs : CallBegin(Caller, args, kwargs)

NextCall ==
    \/ CallLookup
    \/ GetAttrFetch(Caller)
    \/ GetAttrBuild(Caller)
    \/ GetAttrSub(Caller)
    \/ GetAttrChild(Caller)
    \/ GetAttrWrap(Caller)
    \/ GetAttrStore(Caller)
    \/ CallStart
    \/ CallInvoke(Caller)
    \/ CallEndOk(Caller)
    \/ CallEndExc(Caller)
    \/ CallTrackArgs(Caller)
    \/ CallTrack(Caller)
    \/ CallReturn(Caller)
    \/ Tick

SpecCall == Init /\ [][NextCall]_vars

\* SpecNest: one caller walks a client with deeper namespaces through a
\* proxy whose table has a three-level key, and calls what it finds.
InitNest ==
    /\ attrs = NestAttrs
    /\ proxies = (Root :> NewProxy(RootClient, TrackerObj, NestTable))
    /\ known = {Root}
    /\ setCount = 0
    /\ pc = [t \in Threads |-> "idle"]
    /\ loc = [t \in Threads |-> NoLoc]
    /\ ret = [t \in Threads |-> NoRet]
    /\ missed = {}
    /\ clock = 0
    /\ call = [t \in Threads |-> NoCall]
    /\ mlog = [t \in Threads |-> <<>>]
    /\ tlog = [t \in Threads |-> <<>>]
    /\ slog = [t \in Threads |-> <<>>]
    /\ context = "None"

\* the members of the object behind a proxy or a passthrough handle
MembersOf(obj) == {n \in NestNames : PyGetAttr(NestAttrs, obj, n) # NoAttr}

NestKwargs == {kw \in KwargsInputs : DOMAIN kw \subseteq {"track_usage"}}

NestLookup ==
    \E pid \in known : \E name \in MembersOf(proxies[pid].client) :
        GetAttrCheck(Caller, pid, name)

NestDirect == \E name \in NestNames : PlainGetAttr(Caller, name)

\* what a caller passes to a method that is not tracked: no keyword, or
\* every reserved one
PlainKwargs == {kw \in KwargsInputs : DOMAIN kw \in {{}, ReservedKeys}}

NestPlainCall ==
    \E args \in ArgsInputs, kwargs \in PlainKwargs : PlainCall(Caller, args, kwargs)

NestProxyCall ==
    \E args \in ArgsInputs, kwargs \in PlainKwargs : ProxyCall(Caller, args, kwargs)

NestStart == \E kwargs \in NestKwargs : CallBegin(Caller, <<>>, kwargs)

NextNest ==
    \/ NestLookup
    \/ GetAttrFetch(Caller)
    \/ GetAttrBuild(Caller)
    \/ GetAttrSub(Caller)
    \/ GetAttrChild(Caller)
    \/ GetAttrWrap(Caller)
    \/ GetAttrStore(Caller)
    \/ NestDirect
    \/ NestPlainCall
    \/ NestProxyCall
    \/ NestStart
    \/ CallInvoke(Caller)
    \/ CallEndOk(Caller)
    \/ CallEndExc(Caller)
    \/ CallTrackArgs(Caller)
    \/ CallTrack(Caller)
    \/ CallReturn(Caller)

SpecNest == InitNest /\ [][NextNest]_vars

\* SpecGemini: one caller uses the google-genai client through a proxy
\* built with GEMINI_TRACK_METHODS.
InitGemini ==
    /\ attrs = GeminiAttrs
    /\ proxies = (Root :> NewProxy(GeminiClient, TrackerObj, GEMINI_TRACK_METHODS))
    /\ known = {Root}
    /\ setCount = 0
    /\ pc = [t \in Threads |-> "idle"]
    /\ loc = [t \in Threads |-> NoLoc]
    /\ ret = [t \in Threads |-> NoRet]
    /\ missed = {}
    /\ clock = 0
    /\ call = [t \in Threads |-> NoCall]
    /\ mlog = [t \in Threads |-> <<>>]
    /\ tlog = [t \in Threads |-> <<>>]
    /\ slog = [t \in Threads |-> <<>>]
    /\ context = "None"

\* the keyword arguments of a call: model= (a str with or without the
\* prefix, or no str), customer_id= and metadata=, each given or not
NotGiven == [type |-> "absent", chars |-> <<>>]
ModelInputs ==
    {NotGiven, PyStr(<<"x">>), PyStr(ModelsPrefix \o <<"x">>),
     PyStr(ModelsPrefix \o ModelsPrefix \o <<"x">>), [type |-> "int", chars |-> <<"7">>]}
CustomerInputs == {"absent", "None", "customer-123"}
MetadataInputs == {"absent", "{}", "{operation,response_id,tag}"}
KwOf(model, customer_id, metadata) ==
    (IF model = NotGiven THEN NoItems ELSE "model" :> model)
        @@ (IF customer_id = "absent" THEN NoItems ELSE "customer_id" :> customer_id)
        @@ (IF metadata = "absent" THEN NoItems ELSE "metadata" :> metadata)
\* every model with every customer_id, and every metadata with every
\* customer_id
GeminiKwargs ==
    {KwOf(model, customer_id, "absent") :
        model \in ModelInputs, customer_id \in CustomerInputs}
    \cup {KwOf(PyStr(ModelsPrefix \o <<"x">>), customer_id, metadata) :
              customer_id \in CustomerInputs, metadata \in MetadataInputs}

GeminiLookup ==
    \E pid \in known :
        \E name \in {n \in GeminiNames :
                          PyGetAttr(GeminiAttrs, proxies[pid].client, n) # NoAttr} :
            GetAttrCheck(Caller, pid, name)

GeminiStart == \E kwargs \in GeminiKwargs : CallBegin(Caller, <<>>, kwargs)

GeminiContext == \E customer_id \in {"None", "customer-ctx"} : SetCustomerContext(Caller, customer_id)

NextGemini ==
    \/ GeminiLookup
    \/ GetAttrFetch(Caller)
    \/ GetAttrBuild(Caller)
    \/ GetAttrSub(Caller)
    \/ GetAttrChild(Caller)
    \/ GetAttrWrap(Caller)
    \/ GetAttrStore(Caller)
    \/ GeminiContext
    \/ GeminiStart
    \/ CallInvoke(Caller)
    \/ CallEndOk(Caller)
    \/ CallEndExc(Caller)
    \/ CallTrackArgs(Caller)
    \/ CallTrack(Caller)
    \/ CallReturn(Caller)
    \/ Tick

SpecGemini == InitGemini /\ [][NextGemini]_vars

\* SpecAmbient: the caller calls the two tracked methods of the Gemini
\* client with every customer_id, while a second thread sets the ambient
\* customer id and assigns another sink to a proxy: before, after or
\* between the statements of the call.
AmbientKwargs ==
    {KwOf(PyStr(ModelsPrefix \o <<"x">>), customer_id, "absent") :
        customer_id \in CustomerInputs}

AmbientStart == \E kwargs \in AmbientKwargs : CallBegin(Caller, <<>>, kwargs)

AmbientContext == SetCustomerContext(Assigner, "customer-ctx")

AmbientRetarget ==
    /\ setCount < MaxSets
    /\ \E pid \in known : SetAttr(Assigner, pid, nTrackerField, OtherTracker)

NextAmbient ==
    \/ GeminiLookup
    \/ GetAttrFetch(Caller)
    \/ GetAttrBuild(Caller)
    \/ GetAttrSub(Caller)
    \/ GetAttrChild(Caller)
    \/ GetAttrWrap(Caller)
    \/ GetAttrStore(Caller)
    \/ AmbientContext
    \/ AmbientRetarget
    \/ AmbientStart
    \/ CallInvoke(Caller)
    \/ CallEndOk(Caller)
    \/ CallEndExc(Caller)
    \/ CallTrackArgs(Caller)
    \/ CallTrack(Caller)
    \/ CallReturn(Caller)

SpecAmbient == InitGemini /\ [][NextAmbient]_vars

----------------------------------------------------------------------------
(* Claims about attribute resolution *)

\* thread t has completed proxy.name through __getattr__ and got a handle
Resolved(t) ==
    pc[t] = "done" /\ loc[t].via \in {"hit", "miss"} /\ ret[t].kind = "return"

\* thread t completes an assignment in this step
Assigns(t) == setCount' = setCount + 1 /\ loc'[t].via = "set" /\ pc'[t] = "done"

\* the memo cache of every proxy
Caches == [pid \in DOMAIN proxies |-> proxies[pid].tracked_attributes]

\* no step replaces or removes an entry of a memo cache
CacheEntriesKept ==
    \A pid \in DOMAIN proxies :
        \A n \in DOMAIN proxies[pid].tracked_attributes :
            /\ pid \in DOMAIN proxies'
            /\ n \in DOMAIN proxies'[pid].tracked_attributes
            /\ proxies'[pid].tracked_attributes[n] = proxies[pid].tracked_attributes[n]

\* C4 (checked under Spec): two threads that both made a first resolution
\* (a cache miss) of the same name on the same proxy hold the same handle
\* once both have returned.
C4_RacingResolversAgree ==
    \A t \in Threads, u \in Threads :
        /\ Resolved(t) /\ Resolved(u)
        /\ loc[t].via = "miss" /\ loc[u].via = "miss"
        /\ loc[t].pid = loc[u].pid /\ loc[t].name = loc[u].name
        => ret[t].h = ret[u].h

\* C5 (checked under Spec): once a memo cache holds a handle for a name, no
\* step of any thread replaces or removes that entry.
C5_CacheEntryNeverReplaced == [][CacheEntriesKept]_vars

\* the step that ends thread t's fetch (lines 54-60) reports the absence of
\* the name without touching any cache, and fails only if the target lacks
\* the name at that moment
FetchStepFaithful(t) ==
    pc[t] = "ga_fetch" /\ pc'[t] # "ga_fetch" =>
        LET client == proxies[loc[t].pid].client
            member == PyGetAttr(attrs, client, loc[t].name) IN
        IF member = NoAttr
        THEN /\ ret'[t].kind = "raise"
             /\ ret'[t].exc = "AttributeError"
             /\ ret'[t].tname = client.cls
             /\ ret'[t].name = loc[t].name
             /\ [pid \in DOMAIN proxies' |-> proxies'[pid].tracked_attributes] = Caches
        ELSE /\ ret'[t].kind # "raise"
             /\ loc'[t].attr = member

\* no cache entry stands for a missing member, and the handle a first
\* resolution returns is for the member it fetched from the target
AbsenceNotMemoized ==
    /\ \A pid \in DOMAIN proxies :
          \A n \in DOMAIN proxies[pid].tracked_attributes :
              proxies[pid].tracked_attributes[n].v # NoAttr
    /\ \A t \in Threads :
          Resolved(t) => ret[t].h.v # NoAttr /\ (loc[t].via = "miss" => ret[t].h.v = loc[t].attr)

\* C6 (checked under Spec): resolving a name the target lacks raises
\* AttributeError naming the target's type and the name and leaves every
\* memo cache unchanged; an absence is never cached, so once the name
\* exists on the target a resolution fetches and returns the new member.
C6_AbsentNameNotMemoized ==
    [][\A t \in Threads : FetchStepFaithful(t)]_vars /\ []AbsenceNotMemoized

\* a name whose lookup had failed was added to the target, and the next
\* resolution returned the new member
C6_Witness ==
    \E t \in Threads :
        /\ Resolved(t)
        /\ loc[t].via = "miss"
        /\ <<loc[t].pid, loc[t].name>> \in missed
        /\ ret[t].h.v \in SetValues
        /\ ret[t].h.v = PyGetAttr(attrs, proxies[loc[t].pid].client, loc[t].name)

\* name is an exact key of the table, or the prefix of a dotted key
IsKeyOrPrefix(tm, name) ==
    name \in DOMAIN tm \/ \E k \in DOMAIN tm : StartsWith(k, name \o Dot)

\* thread t has read through __getattr__ a member that the proxy's table
\* does not mention
ReadUntracked(t) ==
    Resolved(t) /\ ~IsKeyOrPrefix(proxies[loc[t].pid].track_methods, loc[t].name)

\* C7 as stated (checked under SpecSeq): a read of an untracked member
\* through the proxy returns exactly what the target returns for it.
C7_ReadEqualsTarget ==
    \A t \in Threads :
        ReadUntracked(t) =>
            ret[t].h = Plain(PyGetAttr(attrs, proxies[loc[t].pid].client, loc[t].name))

\* the handle an untracked read returns is the member itself, it is the
\* cached one, and on a first read it is what the target holds
UntrackedReadIsCachedMember ==
    \A t \in Threads :
        ReadUntracked(t) =>
            /\ ret[t].h.h = "plain"
            /\ loc[t].name \in DOMAIN proxies[loc[t].pid].tracked_attributes
            /\ ret[t].h = proxies[loc[t].pid].tracked_attributes[loc[t].name]
            /\ loc[t].via = "miss" =>
                  ret[t].h = Plain(PyGetAttr(attrs, proxies[loc[t].pid].client,
                                             loc[t].name))

\* C7 as amended (checked under SpecSeq, where the callers assign none of
\* the proxy's own fields): the first read of an untracked
\* member through the proxy returns exactly the object the target holds
\* for it at that moment, never a wrapper or a child proxy, and every
\* repeated read returns that identical handle, the cache entry being kept
\* even when the member is assigned anew on the target, for as long as
\* none of the proxy's own fields is assigned.
C7_FirstReadIsMemoized ==
    []UntrackedReadIsCachedMember /\ [][CacheEntriesKept]_vars

\* a repeated read returned the first handle although the target now holds
\* another object under that name
C7_Witness ==
    \E t \in Threads :
        /\ ReadUntracked(t)
        /\ loc[t].via = "hit"
        /\ ret[t].h.v = VerStr
        /\ PyGetAttr(attrs, proxies[loc[t].pid].client, loc[t].name) = NewStr

----------------------------------------------------------------------------
(* Claims about the wrapper, checked under SpecCall *)

\* thread t has completed a call of a tracked wrapper
Called(t) == pc[t] = "done" /\ call[t].w.h = "wrapped"
\* ... in which the real method raised / returned
MethodRaised(t) == Called(t) /\ call[t].exc # NoError
MethodReturned(t) == Called(t) /\ call[t].exc = NoError
\* ... with tracking enabled
Tracking(t) == Truthy(call[t].track_usage)

\* C1: when the real method raises E and tracking is enabled, the caller
\* observes exactly E and the extraction function has been invoked exactly
\* once, with result None, error_occurred true and the error kind and
\* message filled in.
C1_RaiseIsTrackedAndReraised ==
    \A t \in Threads :
        MethodRaised(t) /\ Tracking(t) =>
            /\ ret[t].kind = "raise"
            /\ ret[t].exc = call[t].exc
            /\ Len(tlog[t]) = 1
            /\ tlog[t][1].kw.result = "None"
            /\ tlog[t][1].kw.error_occurred = TRUE
            /\ tlog[t][1].kw.error_type # "None"
            /\ tlog[t][1].kw.error_message # "None"

\* C2: when the real method returns R and tracking is enabled, the wrapper
\* returns exactly R and the extraction function has been invoked exactly
\* once, with result R, error_occurred false, error kind, code and message
\* None, and an end timestamp not before the start timestamp.
C2_ReturnIsTracked ==
    \A t \in Threads :
        MethodReturned(t) /\ Tracking(t) =>
            /\ ret[t].kind = "return"
            /\ ret[t].value = call[t].result
            /\ call[t].result \in Results
            /\ Len(tlog[t]) = 1
            /\ tlog[t][1].kw.result = call[t].result
            /\ tlog[t][1].kw.error_occurred = FALSE
            /\ tlog[t][1].kw.error_type = "None"
            /\ tlog[t][1].kw.error_code = "None"
            /\ tlog[t][1].kw.error_message = "None"
            /\ tlog[t][1].kw.request_end_time >= tlog[t][1].kw.request_start_time

\* the same without the order of the two timestamps: they are the two
\* readings of time.time() the wrapper took
C2_ReturnIsTrackedWithClockReadings ==
    \A t \in Threads :
        MethodReturned(t) /\ Tracking(t) =>
            /\ ret[t].kind = "return"
            /\ ret[t].value = call[t].result
            /\ call[t].result \in Results
            /\ Len(tlog[t]) = 1
            /\ tlog[t][1].kw.result = call[t].result
            /\ tlog[t][1].kw.error_occurred = FALSE
            /\ tlog[t][1].kw.error_type = "None"
            /\ tlog[t][1].kw.error_code = "None"
            /\ tlog[t][1].kw.error_message = "None"
            /\ tlog[t][1].kw.request_start_time = call[t].start_time
            /\ tlog[t][1].kw.request_end_time = call[t].end_time

\* a tracked call returned while the wall clock had been set back during
\* the real method: the extraction function got an end before the start
C2_ClockSetBack ==
    \E t \in Threads :
        /\ MethodReturned(t) /\ Tracking(t)
        /\ Len(tlog[t]) = 1
        /\ tlog[t][1].kw.request_end_time < tlog[t][1].kw.request_start_time
        /\ ret[t].value = "result"

\* the extraction function raised during thread t's call
ExtractionRaised(t) ==
    Called(t) /\ \E i \in 1..Len(tlog[t]) : tlog[t][i].raised # NoError

\* C3: when the extraction function raises, the caller still gets the real
\* result on the success path and the real method's own error on the
\* failure path.
C3_ExtractionFailureIsInvisible ==
    \A t \in Threads :
        ExtractionRaised(t) =>
            /\ MethodReturned(t) =>
                  ret[t].kind = "return" /\ ret[t].value = call[t].result
            /\ MethodRaised(t) =>
                  ret[t].kind = "raise" /\ ret[t].exc = call[t].exc

\* the extraction function raised after the real method had raised, and
\* the caller got the real method's error
C3_Witness ==
    \E t \in Threads :
        /\ ExtractionRaised(t)
        /\ MethodRaised(t)
        /\ ret[t].exc = RpcError

\* the extraction function was invoked for a call whose real method raised
TrackedFailure(t, i) == i \in 1..Len(tlog[t]) /\ tlog[t][i].kw.error_occurred

\* C13: the classification handed to the extraction function is
\* kind transport_error with the value of the error's code accessor when
\* the error has a `code`, otherwise kind sdk_error with code None; the
\* message is the error's string form.
C13_ClassifiedAsTransportError ==
    \A t \in Threads : \A i \in 1..Len(tlog[t]) :
        TrackedFailure(t, i) =>
            LET e == call[t].exc
                kw == tlog[t][i].kw IN
            /\ e.code # "absent" =>
                  kw.error_type = "transport_error" /\ kw.error_code = e.codeval
            /\ e.code = "absent" =>
                  kw.error_type = "sdk_error" /\ kw.error_code = "None"
            /\ kw.error_message = e.msg

\* the text of the status code of each error that has one
CodeText(e) ==
    IF e = RpcError THEN "StatusCode.UNAVAILABLE"
    ELSE IF e = StatusError THEN "404"
    ELSE "None"

\* what lines 153-157 hand over instead: whenever the extraction function
\* is invoked after the real method raised, it gets kind grpc_error and,
\* as code, the string form of what the error's code() returned when the
\* error has a `code`, otherwise kind sdk_error and code None; the message
\* is the error's string form.  An error whose `code` is not callable
\* never gets that far (line 154 raises TypeError).
C13_ClassifiedAsGrpcError ==
    \A t \in Threads : \A i \in 1..Len(tlog[t]) :
        TrackedFailure(t, i) =>
            LET e == call[t].exc
                kw == tlog[t][i].kw IN
            /\ e.code # "absent" =>
                  kw.error_type = "grpc_error" /\ kw.error_code = CodeText(e)
            /\ e.code = "absent" =>
                  kw.error_type = "sdk_error" /\ kw.error_code = "None"
            /\ kw.error_message = e.msg

\* a call whose real method raised an error with a code() accessor
\* completed, and the extraction function had been handed kind grpc_error
\* and the code as text
C13_GrpcErrorHandedOver ==
    \E t \in Threads :
        /\ MethodRaised(t)
        /\ call[t].exc = RpcError
        /\ Len(tlog[t]) = 1
        /\ tlog[t][1].kw.error_type = "grpc_error"
        /\ tlog[t][1].kw.error_code = "StatusCode.UNAVAILABLE"
        /\ tlog[t][1].kw.error_message = "unavailable"

\* C14: one invocation of a tracked wrapper invokes the extraction function
\* at most once, whatever the real method does (return, raise), whatever
\* the extraction function does (return, raise) and whatever track_usage
\* is; an extraction function that raises after a normal return is not
\* invoked again by the failure path.
C14_AtMostOneExtraction ==
    \A t \in Threads :
        /\ Len(tlog[t]) <= 1
        /\ ExtractionRaised(t) /\ MethodReturned(t) =>
              /\ Len(tlog[t]) = 1
              /\ tlog[t][1].kw.error_occurred = FALSE
              /\ ret[t].kind = "return"

\* the extraction function raised after the real method had returned, and
\* it had been invoked once
C14_Witness ==
    \E t \in Threads :
        /\ ExtractionRaised(t)
        /\ MethodReturned(t)
        /\ Len(tlog[t]) = 1
        /\ ret[t].value = "result"

\* C8: a call with track_usage=False never invokes the extraction function,
\* the real method is invoked (once) with the non-reserved arguments, and
\* its result is returned or its error re-raised unchanged.
C8_TrackingDisabled ==
    \A t \in Threads :
        Called(t) /\ "track_usage" \in DOMAIN call[t].given_kwargs
                  /\ call[t].given_kwargs["track_usage"] = "False" =>
            /\ tlog[t] = <<>>
            /\ Len(mlog[t]) = 1
            /\ mlog[t][1].args = call[t].given_args
            /\ mlog[t][1].kwargs =
                  [k \in DOMAIN call[t].given_kwargs \ ReservedKeys |->
                      call[t].given_kwargs[k]]
            /\ MethodReturned(t) =>
                  ret[t].kind = "return" /\ ret[t].value = call[t].result
            /\ MethodRaised(t) =>
                  ret[t].kind = "raise" /\ ret[t].exc = call[t].exc

\* C9: the keyword arguments the real method receives contain none of
\* customer_id, track_usage, metadata; every other keyword argument and
\* every positional argument reaches it unchanged, in the same order.
C9_ReservedKeysStripped ==
    \A t \in Threads :
        \A i \in 1..Len(mlog[t]) :
            /\ DOMAIN mlog[t][i].kwargs \cap ReservedKeys = {}
            /\ DOMAIN mlog[t][i].kwargs = DOMAIN call[t].given_kwargs \ ReservedKeys
            /\ \A k \in DOMAIN mlog[t][i].kwargs :
                  mlog[t][i].kwargs[k] = call[t].given_kwargs[k]
            /\ mlog[t][i].args = call[t].given_args

\* the real method was invoked by a call that passed all three reserved
\* keys, an ordinary keyword and two positional arguments
C9_Witness ==
    \E t \in Threads :
        /\ Len(mlog[t]) = 1
        /\ DOMAIN call[t].given_kwargs = KwKeys
        /\ call[t].given_args = <<"arg1", "arg2">>
        /\ mlog[t][1].kwargs = [k \in {"kwarg"} |-> "value"]

\* C10: the customer_id the extraction function sees mirrors the call site:
\* a given value arrives as that value, a given None as None, and an
\* omitted customer_id as the Ellipsis sentinel, which is not None.
C10_CustomerIdThreeState ==
    \A t \in Threads :
        \A i \in 1..Len(tlog[t]) :
            LET seen == tlog[t][i].kw.customer_id
                given == call[t].given_kwargs IN
            /\ "customer_id" \in DOMAIN given => seen = given["customer_id"]
            /\ "customer_id" \notin DOMAIN given => seen = "Ellipsis" /\ seen # "None"

\* the extraction function was invoked by a call that passed no customer_id
C10_Witness ==
    \E t \in Threads :
        /\ Len(tlog[t]) = 1
        /\ "customer_id" \notin DOMAIN call[t].given_kwargs
        /\ tlog[t][1].kw.customer_id = "Ellipsis"

----------------------------------------------------------------------------
(* Claims about nested namespaces, checked under SpecNest *)

\* thread t has resolved name on a proxy whose target is obj, and holds
\* the handle
ResolvedOn(t, obj, name) ==
    /\ Resolved(t)
    /\ call[t] = NoCall
    /\ proxies[loc[t].pid].client = obj
    /\ loc[t].name = name

\* the handle is a child proxy for obj whose table is exactly tm
IsChildProxy(h, obj, tm) ==
    /\ h.h = "proxy"
    /\ h.pid \in DOMAIN proxies
    /\ proxies[h.pid].client = obj
    /\ proxies[h.pid].track_methods = tm

\* C11: with the key o.i.p in the table, proxy.o is a child proxy whose
\* table is exactly {i.p}, o.i on it is a child proxy whose table is {p},
\* and one call of proxy.o.i.p(...) with tracking enabled invokes the real
\* method once and the extraction function exactly once.
C11_NestedKeyTrackedOnce ==
    \A t \in Threads :
        /\ ResolvedOn(t, RootClient, nOuter) =>
              IsChildProxy(ret[t].h, OuterObj, (nInner \o Dot \o nOp) :> "track_op")
        /\ ResolvedOn(t, OuterObj, nInner) =>
              IsChildProxy(ret[t].h, InnerObj, nOp :> "track_op")
        /\ ResolvedOn(t, InnerObj, nOp) =>
              ret[t].h.h = "wrapped" /\ ret[t].h.v = OpFunc
        /\ pc[t] = "done" /\ call[t].w.v = OpFunc /\ Tracking(t) =>
              /\ Len(mlog[t]) = 1
              /\ mlog[t][1].method = OpFunc
              /\ Len(tlog[t]) = 1
              /\ tlog[t][1].kw.tf = "track_op"

\* the functions named c that are not reached as proxy.m.c
StrayCountFuncs == {RootCountFunc, OtherCountFunc, UtilCountFunc}

\* C12: with the key m.c in the table, a method named c reached at the
\* root (proxy.c) or under another namespace (proxy.k.c, proxy.u.c) is
\* never wrapped and calling it never invokes an extraction function; the
\* extraction function of m.c is invoked only by a call of the wrapper
\* that the child proxy of proxy.m built around the real m.c.
C12_DottedKeyOnlyAlongItsChain ==
    \A t \in Threads :
        /\ pc[t] = "done" /\ ret[t].kind = "return" /\ ret[t].h.v \in StrayCountFuncs =>
              ret[t].h.h = "plain"
        /\ call[t].w.v \in StrayCountFuncs =>
              call[t].w.h = "plain" /\ tlog[t] = <<>>
        /\ \A i \in 1..Len(tlog[t]) :
              tlog[t][i].kw.tf = "track_mc" =>
                  /\ call[t].w.h = "wrapped"
                  /\ call[t].w.v = CountFunc
                  /\ proxies[call[t].w.pid].client = ModelsObj
                  /\ \E n \in DOMAIN proxies[Root].tracked_attributes :
                        /\ n = nModels
                        /\ proxies[Root].tracked_attributes[n].pid = call[t].w.pid

\* proxy.k.c, reached through the child proxy of k, was called: the real
\* function ran and no extraction function did
C12_Witness ==
    \E t \in Threads :
        /\ pc[t] = "done"
        /\ call[t].w.v = OtherCountFunc
        /\ Len(mlog[t]) = 1
        /\ tlog[t] = <<>>
        /\ ret[t].kind = "return"
        /\ ret[t].value = "result"

\* thread t has called a callable member it read under a name that is not
\* a key of the table of the proxy it read it from, or that it read from
\* an object the proxy handed out as it is
CalledUntracked(t) ==
    /\ pc[t] = "done"
    /\ ret[t].kind \in {"return", "raise"}
    /\ call[t].w.h \in {"plain", "proxy"}
    /\ Callable(call[t].w.v)
    /\ \/ loc[t].via = "direct"
       \/ /\ loc[t].via \in {"hit", "miss"}
          /\ loc[t].name \notin DOMAIN proxies[loc[t].pid].track_methods

\* C27: a call through the proxy, at any nesting level, of a method whose
\* path is not a key of the interception table invokes the real method
\* once with the positional and keyword arguments exactly as given, the
\* keywords customer_id, track_usage and metadata included, and invokes
\* neither an extraction function nor the sink.
C27_UntrackedCallForwarded ==
    \A t \in Threads :
        CalledUntracked(t) =>
            /\ mlog[t] = <<[method |-> call[t].w.v, args |-> call[t].given_args,
                            kwargs |-> call[t].given_kwargs]>>
            /\ tlog[t] = <<>>
            /\ slog[t] = <<>>
            /\ IF call[t].exc = NoError
               THEN ret[t].kind = "return" /\ ret[t].value = call[t].result
               ELSE ret[t].kind = "raise" /\ ret[t].exc = call[t].exc

\* the same for the methods whose name is neither a key nor the first
\* segments of a key
C27_ForwardedUnlessKeyPrefix ==
    \A t \in Threads :
        /\ CalledUntracked(t)
        /\ loc[t].via = "direct"
              \/ ~IsKeyOrPrefix(proxies[loc[t].pid].track_methods, loc[t].name)
        => /\ mlog[t] = <<[method |-> call[t].w.v, args |-> call[t].given_args,
                           kwargs |-> call[t].given_kwargs]>>
           /\ tlog[t] = <<>>
           /\ slog[t] = <<>>
           /\ IF call[t].exc = NoError
              THEN ret[t].kind = "return" /\ ret[t].value = call[t].result
              ELSE ret[t].kind = "raise" /\ ret[t].exc = call[t].exc

\* proxy.k.c was called with every reserved keyword and the real function
\* got them all
C27_ReservedForwarded ==
    \E t \in Threads :
        /\ CalledUntracked(t)
        /\ call[t].w.v = OtherCountFunc
        /\ DOMAIN call[t].given_kwargs = ReservedKeys
        /\ Len(mlog[t]) = 1
        /\ mlog[t][1].kwargs = call[t].given_kwargs

\* proxy.h was called: the proxy had handed out a child proxy for the
\* method h, and the call raised TypeError without reaching h
C27_ChildProxyCalled ==
    \E t \in Threads :
        /\ CalledUntracked(t)
        /\ call[t].w.h = "proxy"
        /\ call[t].w.v = HookFunc
        /\ mlog[t] = <<>>
        /\ ret[t].exc = NotCallableError

----------------------------------------------------------------------------
(* Claims about the built-in extraction functions, checked under           *)
(* SpecGemini and SpecAmbient                                              *)

\* thread t has completed a call in which the built-in extraction function
\* tf was invoked
Extracted(t, tf) ==
    Called(t) /\ Len(tlog[t]) = 1 /\ tlog[t][1].kw.tf = tf

\* the ambient customer id when the extraction function of thread t's call
\* looked it up
AmbientOf(t) == IF Len(tlog[t]) = 1 THEN tlog[t][1].ambient ELSE "None"

\* the call of thread t has a customer id: one given at the call site, or
\* the ambient one of that moment when none was given, and looking it up
\* did not fail
Resolvable(t) ==
    /\ \A i \in 1..Len(tlog[t]) : tlog[t][i].fault # "resolve"
    /\ \/ call[t].customer_id \notin {"Ellipsis", "None"}
       \/ call[t].customer_id = "Ellipsis" /\ AmbientOf(t) # "None"

\* the customer id of the call of thread t
CustomerOf(t) ==
    IF call[t].customer_id = "Ellipsis" THEN AmbientOf(t) ELSE call[t].customer_id

\* C15: when track_generate_content is given the result of a call that
\* did not fail, an object without any usage_metadata, and a customer id
\* is resolvable, the sink's record operation is not called.
C15_NoUsageNoEvent ==
    \A t \in Threads :
        /\ Extracted(t, "track_generate_content")
        /\ MethodReturned(t)
        /\ call[t].result \in {"resp_nousage", "count_broken"}
        /\ Resolvable(t)
        => slog[t] = <<>>

\* C16: when a built-in extraction function is called for a failed call
\* (result None, error_occurred true) and a customer id is resolvable, the
\* sink's record operation is called exactly once, with input and output
\* quantities zero and with the error kind, code and message, the
\* correlation id and the two timestamps of the call.
C16_FailureEmitsZeroEvent ==
    \A t \in Threads : \A tf \in BuiltinTrackers :
        /\ Extracted(t, tf)
        /\ MethodRaised(t)
        /\ Resolvable(t)
        => /\ tlog[t][1].kw.result = "None"
           /\ Len(slog[t]) = 1
           /\ LET ev == slog[t][1].event
                   e == call[t].exc IN
              /\ ev.customer_id = CustomerOf(t)
              /\ ev.input_tokens = 0
              /\ ev.output_tokens = 0
              /\ ev.error_occurred = TRUE
              /\ ev.error_type = (IF e.code = "absent" THEN "sdk_error" ELSE "grpc_error")
              /\ ev.error_code = CodeText(e)
              /\ ev.error_message = e.msg
              /\ ev.request_id = call[t].request_id
              /\ ev.request_start_time = call[t].start_time
              /\ ev.request_end_time = call[t].end_time

\* count_tokens raised an error with a status code, the clock having gone
\* on before the call and been set back during it, and the sink got one
\* zero-quantity event with that error and those two readings
C16_Witness ==
    \E t \in Threads :
        /\ Extracted(t, "track_count_tokens")
        /\ call[t].exc = RpcError
        /\ Len(slog[t]) = 1
        /\ slog[t][1].event.error_code = "StatusCode.UNAVAILABLE"
        /\ slog[t][1].event.input_tokens = 0
        /\ slog[t][1].event.request_start_time = 1
        /\ slog[t][1].event.request_end_time = 0

\* C17 (checked under SpecAmbient, where a second thread sets the ambient
\* customer id and replaces the sink during the calls): when no customer
\* id is resolvable, a built-in extraction function returns normally
\* without calling the sink's record operation, whatever the result is and
\* whether the call failed or not.
C17_NoCustomerNoEvent ==
    \A t \in Threads : \A tf \in BuiltinTrackers :
        Extracted(t, tf) /\ ~Resolvable(t) =>
            /\ slog[t] = <<>>
            /\ tlog[t][1].raised = NoError
            /\ MethodReturned(t) => ret[t].kind = "return" /\ ret[t].value = call[t].result
            /\ MethodRaised(t) => ret[t].kind = "raise" /\ ret[t].exc = call[t].exc

\* count_tokens returned a result with a token total to a caller that had
\* passed customer_id=None while an ambient customer id was set, and the
\* sink was not called
C17_Witness ==
    \E t \in Threads :
        /\ Extracted(t, "track_count_tokens")
        /\ call[t].customer_id = "None"
        /\ AmbientOf(t) = "customer-ctx"
        /\ call[t].result = "count_15"
        /\ slog[t] = <<>>

\* the sink was replaced on the proxy and then the ambient customer id
\* set, both between line 129, which had read the old sink, and line 215,
\* which read the new id: the old sink got an event for the ambient
\* customer
C17_OldSinkNewAmbient ==
    /\ Extracted(Caller, "track_generate_content")
    /\ call[Caller].customer_id = "Ellipsis"
    /\ call[Caller].tracker = TrackerObj
    /\ proxies[call[Caller].w.pid].tracker = OtherTracker
    /\ Len(slog[Caller]) = 1
    /\ slog[Caller][1].sink = TrackerObj
    /\ slog[Caller][1].event.customer_id = "customer-ctx"
    /\ setCount = 1
    /\ pc[Assigner] = "done"
    /\ loc[Assigner] = NoLoc

\* the model name m without one leading "models/"
WithoutModelsPrefix(m) ==
    IF m.type = "str" /\ Len(m.chars) >= 7
          /\ SubSeq(m.chars, 1, 7) = <<"m", "o", "d", "e", "l", "s", "/">>
    THEN [type |-> "str", chars |-> SubSeq(m.chars, 8, Len(m.chars))]
    ELSE m

\* C18: when track_generate_content is given a result whose usage_metadata
\* reports prompt count 15 and candidates count 25, and a customer id is
\* resolvable, the sink's record operation is called exactly once with
\* input quantity 15, output quantity 25, provider google and the model of
\* the call's keyword arguments.
C18_CountsReported ==
    \A t \in Threads :
        /\ Extracted(t, "track_generate_content")
        /\ call[t].result = "resp_full"
        /\ Resolvable(t)
        => /\ Len(slog[t]) = 1
           /\ slog[t][1].event.customer_id = CustomerOf(t)
           /\ slog[t][1].event.input_tokens = 15
           /\ slog[t][1].event.output_tokens = 25
           /\ slog[t][1].event.provider = "google"
           /\ "model" \in DOMAIN call[t].given_kwargs =>
                 slog[t][1].event.model = WithoutModelsPrefix(call[t].given_kwargs["model"])

\* generate_content(model="x") returned such a result to a caller with an
\* ambient customer id, and the sink got the event
C18_Witness ==
    \E t \in Threads :
        /\ Extracted(t, "track_generate_content")
        /\ call[t].result = "resp_full"
        /\ call[t].customer_id = "Ellipsis"
        /\ Len(slog[t]) = 1
        /\ slog[t][1].event.customer_id = "customer-ctx"
        /\ slog[t][1].event.input_tokens = 15
        /\ slog[t][1].event.output_tokens = 25
        /\ slog[t][1].event.model = [type |-> "str", chars |-> <<"x">>]

\* C19: the model reported to the sink is the model keyword argument
\* without one leading "models/" if it has one, and unchanged otherwise.
C19_ModelPrefixStripped ==
    \A t \in Threads : \A i \in 1..Len(slog[t]) :
        "model" \in DOMAIN call[t].given_kwargs =>
            slog[t][i].event.model = WithoutModelsPrefix(call[t].given_kwargs["model"])

\* proxy.models.generate_content(model="models/x") was called through the
\* built-in table and the sink got an event whose model is "x"
C19_Witness ==
    \E t \in Threads :
        /\ Extracted(t, "track_generate_content")
        /\ call[t].w.v = GenerateContentFunc
        /\ proxies[call[t].w.pid].client = GeminiModels
        /\ "model" \in DOMAIN call[t].given_kwargs
        /\ call[t].given_kwargs["model"] =
              [type |-> "str", chars |-> <<"m", "o", "d", "e", "l", "s", "/", "x">>]
        /\ Len(slog[t]) = 1
        /\ slog[t][1].event.model = [type |-> "str", chars |-> <<"x">>]

\* the metadata each built-in extraction function takes from a result
ExpectedExtracted(tf, result) ==
    IF tf = "track_generate_content"
    THEN IF result = "resp_full"
         THEN [response_id |-> "resp_123", safety_ratings |-> "None", finish_reason |-> "STOP"]
         ELSE IF result = "resp_bare"
         THEN [response_id |-> "None", safety_ratings |-> "None", finish_reason |-> "None"]
         ELSE NoItems
    ELSE IF result = "count_15"
         THEN [operation |-> "count_tokens", total_tokens |-> 15]
         ELSE IF result \in {"resp_full", "resp_mock"}
         THEN [operation |-> "count_tokens", total_tokens |-> "mock"]
         ELSE [operation |-> "count_tokens"]

\* C20: the metadata of an emitted event is the extracted metadata with
\* the caller's metadata override on top: a key of the override has the
\* override's value, an extracted key that is not in the override keeps
\* its extracted value, and there are no other keys.
C20_OverrideMergedOnTop ==
    \A t \in Threads : \A i \in 1..Len(slog[t]) :
        LET md == slog[t][i].event.metadata
            override == MetadataItems(call[t].custom_metadata)
            extracted == ExpectedExtracted(call[t].w.tf,
                                           IF call[t].error_occurred THEN "None"
                                           ELSE call[t].result) IN
        /\ DOMAIN md = DOMAIN extracted \cup DOMAIN override
        /\ \A k \in DOMAIN override : md[k] = override[k]
        /\ \A k \in DOMAIN extracted \ DOMAIN override : md[k] = extracted[k]

\* count_tokens was called with a metadata override that has the key
\* operation and a key of its own, and the emitted metadata has the
\* override's operation, the extracted total and the override's own key
C20_Witness ==
    \E t \in Threads :
        /\ Extracted(t, "track_count_tokens")
        /\ call[t].custom_metadata = "{operation,response_id,tag}"
        /\ call[t].result = "count_15"
        /\ Len(slog[t]) = 1
        /\ slog[t][1].event.metadata.operation = "custom"
        /\ slog[t][1].event.metadata.total_tokens = 15
        /\ slog[t][1].event.metadata.tag = "value"

----------------------------------------------------------------------------
(* Sanity of the model *)

----------------------------------------------------------------------------
(* Claims about the course of one tracked call, checked under SpecCall    *)

\* thread t is inside a call of a wrapper, or has completed one
InWrapper(t) == call[t].w.h = "wrapped"

\* C23: one call of a tracked wrapper invokes the real method exactly
\* once: never a second time after an error, nor while or after the
\* extraction function runs.
C23_RealMethodInvokedOnce ==
    \A t \in Threads :
        InWrapper(t) =>
            /\ Len(mlog[t]) <= 1
            /\ pc[t] # "call_invoke" => Len(mlog[t]) = 1
            /\ \A i \in 1..Len(mlog[t]) : mlog[t][i].method = call[t].w.v

\* the real method raised, the extraction function ran (and itself raised),
\* the caller has the error, and the real method was invoked once
C23_Witness ==
    \E t \in Threads :
        /\ MethodRaised(t)
        /\ ret[t].kind = "raise"
        /\ Len(tlog[t]) = 1
        /\ tlog[t][1].raised # NoError
        /\ Len(mlog[t]) = 1

\* the caller of thread t has the outcome of its call in hand
Delivered(t) == ret[t].kind # "none"

\* C24: within one tracked call the reserved keywords are removed and
\* the correlation id and start timestamp taken before the real method is
\* invoked; the extraction function is invoked only after the real method
\* has completed and the end timestamp has been taken; and the caller gets
\* the result, or the original error, only after the real method has run
\* and, if tracking is enabled, the extraction function has been invoked
\* and has finished.
C24_OrderWithinCall ==
    \A t \in Threads :
        InWrapper(t) =>
            /\ DOMAIN call[t].kwargs \cap ReservedKeys = {}
            /\ call[t].request_id \in UUIDs
            /\ \A i \in 1..Len(mlog[t]) :
                   DOMAIN mlog[t][i].kwargs \cap ReservedKeys = {}
            /\ pc[t] \in {"call_invoke", "call_ok", "call_exc"} =>
                   tlog[t] = <<>> /\ ~Delivered(t)
            /\ pc[t] \in {"call_args", "call_track"} => Len(mlog[t]) = 1 /\ ~Delivered(t)
            /\ \A i \in 1..Len(tlog[t]) :
                   /\ Len(mlog[t]) = 1
                   /\ tlog[t][i].kw.request_start_time = call[t].start_time
                   /\ tlog[t][i].kw.request_end_time = call[t].end_time
            /\ Delivered(t) =>
                   /\ pc[t] = "done"
                   /\ Len(mlog[t]) = 1
                   /\ Tracking(t) => Len(tlog[t]) = 1
                   /\ IF call[t].exc = NoError
                      THEN ret[t].kind = "return" /\ ret[t].value = call[t].result
                      ELSE ret[t].kind = "raise" /\ ret[t].exc = call[t].exc

\* the same order for the calls whose error, if any, has no `code` or a
\* callable one
C24_OrderUnlessCodeNotCallable ==
    \A t \in Threads :
        InWrapper(t) /\ call[t].exc.code # "attribute" =>
            /\ pc[t] \in {"call_invoke", "call_ok", "call_exc"} =>
                   tlog[t] = <<>> /\ ~Delivered(t)
            /\ pc[t] \in {"call_args", "call_track"} => Len(mlog[t]) = 1 /\ ~Delivered(t)
            /\ Delivered(t) =>
                   /\ pc[t] = "done"
                   /\ Len(mlog[t]) = 1
                   /\ Tracking(t) => Len(tlog[t]) = 1
                   /\ IF call[t].exc = NoError
                      THEN ret[t].kind = "return" /\ ret[t].value = call[t].result
                      ELSE ret[t].kind = "raise" /\ ret[t].exc = call[t].exc

----------------------------------------------------------------------------
(* Claims about assignment through the proxy, checked under SpecOwn and   *)
(* SpecSeq                                                                 *)

\* the values the callers assign
AssignedValues == SetValues \cup {ModelsObj} \cup {NewDict(n) : n \in 1..MaxOwnSets}

\* the proxy p has value as its own attribute name: as its target, sink,
\* table or memo cache if the name is theirs, as one more instance
\* attribute otherwise
StoredOnProxy(p, name, value) ==
    IF name = nClientField THEN p.client = value
    ELSE IF name = nTrackerField THEN p.tracker = value
    ELSE IF name = nTrackMethodsField
    THEN /\ value.kind = "dict" /\ DOMAIN p.track_methods = {}
         /\ name \in DOMAIN p.extra /\ p.extra[name] = value
    ELSE IF name = nTrackedAttributesField
    THEN /\ value.kind = "dict" /\ DOMAIN p.tracked_attributes = {}
         /\ name \in DOMAIN p.extra /\ p.extra[name] = value
    ELSE name \in DOMAIN p.extra /\ p.extra[name] = value

\* the assignment thread t has just completed put the value among the
\* proxy's own attributes, left its other attributes alone and changed no
\* object of the client
StoredPrivately(t) ==
    LET pid == loc'[t].pid
        name == loc'[t].name IN
    /\ attrs' = attrs
    /\ ret'[t] = ReturnedNone
    /\ loc'[t].attr \in AssignedValues
    /\ StoredOnProxy(proxies'[pid], name, loc'[t].attr)
    /\ \A other \in DOMAIN proxies \ {pid} : proxies'[other] = proxies[other]
    /\ name # nClientField => proxies'[pid].client = proxies[pid].client
    /\ name # nTrackerField => proxies'[pid].tracker = proxies[pid].tracker
    /\ name # nTrackMethodsField =>
           proxies'[pid].track_methods = proxies[pid].track_methods
    /\ name # nTrackedAttributesField =>
           proxies'[pid].tracked_attributes = proxies[pid].tracked_attributes
    /\ \A n \in DOMAIN proxies[pid].extra \ {name} :
           /\ n \in DOMAIN proxies'[pid].extra
           /\ proxies'[pid].extra[n] = proxies[pid].extra[n]

\* the assignment thread t has just completed set the member on the target
\* and nothing on any proxy
SetOnTarget(t) ==
    LET pid == loc'[t].pid
        name == loc'[t].name
        target == proxies[pid].client IN
    /\ proxies' = proxies
    /\ ret'[t] = ReturnedNone
    /\ loc'[t].attr \in AssignedValues
    /\ PyGetAttr(attrs', target, name) = loc'[t].attr
    /\ \A o \in DOMAIN attrs : \A n \in DOMAIN attrs[o] :
           (o # target.oid \/ n # name) =>
               n \in DOMAIN attrs'[o] /\ attrs'[o][n] = attrs[o][n]

\* the assignment thread t has just completed raised the AttributeError of
\* a target that takes no attributes, and nothing was assigned
RefusedByTarget(t) ==
    LET pid == loc'[t].pid
        target == proxies[pid].client IN
    /\ ~AcceptsAttrs(target)
    /\ proxies' = proxies
    /\ attrs' = attrs
    /\ ret'[t] = AttributeError(target, loc'[t].name)

\* a thread whose assignment was completed by this step
JustAssigned(t) == loc'[t].via = "set" /\ pc'[t] = "done"

\* the assignment of this step sets the member on the target and nothing
\* on any proxy (public name), or puts the value among the proxy's own
\* attributes, leaves its other attributes alone and changes no object of
\* the client (private name)
AssignmentGoesToItsPlace ==
    setCount' = setCount + 1 =>
        \E t \in Threads :
            /\ JustAssigned(t)
            /\ IF loc'[t].name[1] # "_" THEN SetOnTarget(t) ELSE StoredPrivately(t)

\* the same, a public name being set on the target if the target takes
\* attributes, and the target's own AttributeError raised if it does not
AssignmentForwardedToItsPlace ==
    setCount' = setCount + 1 =>
        \E t \in Threads :
            /\ JustAssigned(t)
            /\ IF loc'[t].name[1] # "_"
               THEN SetOnTarget(t) \/ RefusedByTarget(t)
               ELSE StoredPrivately(t)

\* C22 (checked under SpecOwn): an assignment of a public name through
\* the proxy sets the member on the target and leaves the proxy's target
\* reference, sink reference, interception table and memo cache as they
\* were; an assignment of a name that begins with an underscore stores the
\* value on the proxy itself and leaves the target as it was.
C22_AssignmentForwardedUnlessPrivate == [][AssignmentGoesToItsPlace]_vars

\* C22 as amended (checked under SpecOwn): an assignment of a public name
\* through the proxy is forwarded to the target: it sets the member there,
\* or raises the AttributeError of a target that takes no attributes and
\* assigns nothing, and in both cases leaves the proxy's fields as they
\* were; an assignment of a name that begins with an underscore stores the
\* value on the proxy itself, the names of the constructor's fields
\* included, and leaves the target as it was.
C22_AssignmentForwardedOrRefused == [][AssignmentForwardedToItsPlace]_vars

\* a public name was assigned through a proxy around a bound method: the
\* caller got the target's AttributeError and nothing was assigned
C22_Witness ==
    \E t \in Threads :
        /\ setCount = 1
        /\ pc[t] = "done"
        /\ loc[t].via = "set"
        /\ loc[t].name = nGen
        /\ proxies[Root].client = HookFunc
        /\ ret[t] = AttributeError(HookFunc, nGen)
        /\ attrs = InitAttrs

\* after a read had filled the memo cache, the private name _client was
\* assigned: the value is on the proxy, as its target, and the objects of
\* the client are as they were constructed
C22_ClientRetargeted ==
    /\ setCount = 1
    /\ loc[Assigner].via = "set"
    /\ loc[Assigner].name = nClientField
    /\ proxies[Root].client = ModelsObj
    /\ DOMAIN proxies[Root].tracked_attributes # {}
    /\ attrs = InitAttrs

\* the table was replaced by another thread between the test of line 63
\* and the read of line 106: the read of a tracked method raised KeyError
C22_TableReplacedUnderReader ==
    /\ pc[Caller] = "done"
    /\ loc[Caller].name = nGen
    /\ loc[Caller].via = "miss"
    /\ ret[Caller] = KeyError(nGen)
    /\ DOMAIN proxies[Root].track_methods = {}
    /\ \E t \in Threads \ {Caller} : loc[t].via = "set" /\ loc[t].name = nTrackMethodsField

\* the table and then the sink were assigned between the statements of one
\* read of the namespace m: the child proxy has the sub-table of the old
\* table (line 76 ran before the first assignment) and the new sink (line
\* 81 ran after the second)
C22_ChildAcrossAssignments ==
    /\ Resolved(Caller)
    /\ loc[Caller].name = nModels
    /\ ret[Caller].h.h = "proxy"
    /\ proxies[ret[Caller].h.pid].track_methods = SubTrackMethods(RootTable, nModels)
    /\ proxies[ret[Caller].h.pid].tracker = NewStr
    /\ DOMAIN proxies[Root].track_methods = {}
    /\ setCount = 2
    /\ loc[Assigner].via = "set"
    /\ loc[Assigner].name = nTrackerField

\* the caller read _wrap_method twice and holds the second method object
C22_BoundTwice ==
    /\ proxies[Root].binds = 2
    /\ ret[Caller].kind = "return"
    /\ ret[Caller].h.v = WrapMethodBound(Root, 2)

\* a private name that is none of the proxy's fields was assigned
C22_PrivateAssigned ==
    /\ setCount = 1
    /\ loc[Assigner].via = "set"
    /\ loc[Assigner].name = nPriv
    /\ nPriv \in DOMAIN proxies[Root].extra
    /\ proxies[Root].extra[nPriv] = NewStr
    /\ attrs = InitAttrs

\* a public name was assigned: the client has the new member
C22_PublicAssigned ==
    /\ setCount = 1
    /\ loc[Assigner].via = "set"
    /\ loc[Assigner].name = nGen
    /\ PyGetAttr(attrs, RootClient, nGen) = NewFunc
    /\ proxies[Root].extra = EmptyMap
    /\ DOMAIN proxies[Root].tracked_attributes # {}

\* thread t has read through the proxy a public name that was assigned
\* through the proxy before: the target holds an assigned value under it
ReadAfterAssignment(t) ==
    /\ Resolved(t)
    /\ PyGetAttr(attrs, proxies[loc[t].pid].client, loc[t].name) \in SetValues

\* the handle of thread t is made from the target's member v as the claim
\* has it: the wrapper around v for a tracked name and a callable v, v
\* itself otherwise
ReflectsAsStated(t, v) ==
    IF loc[t].name \in DOMAIN proxies[loc[t].pid].track_methods /\ Callable(v)
    THEN /\ ret[t].h.h = "wrapped"
         /\ ret[t].h.v = v
         /\ ret[t].h.name = loc[t].name
    ELSE ret[t].h = Plain(v)

\* the keys of the table tm that lie under the namespace name, without the
\* name and the dot
KeysUnder(tm, name) ==
    {SliceFrom(k, Len(name) + 1) : k \in {k \in DOMAIN tm : StartsWith(k, name \o Dot)}}

\* the handle of thread t is made from the target's member v: the wrapper
\* around v if the name is a key of the table and v is callable; else, if
\* the table has keys under the name and v has instance attributes and is
\* no primitive, a child proxy around v with the proxy's sink and exactly
\* those keys; else v itself
ReflectsMember(t, v) ==
    LET p == proxies[loc[t].pid]
        name == loc[t].name
        h == ret[t].h IN
    IF name \in DOMAIN p.track_methods /\ Callable(v)
    THEN /\ h.h = "wrapped"
         /\ h.v = v
         /\ h.name = name
         /\ h.tf = p.track_methods[name]
    ELSE IF KeysUnder(p.track_methods, name) # {} /\ v.kind \in {"func", "obj"}
    THEN /\ h.h = "proxy"
         /\ h.v = v
         /\ h.pid \in DOMAIN proxies
         /\ proxies[h.pid].client = v
         /\ proxies[h.pid].tracker = p.tracker
         /\ DOMAIN proxies[h.pid].track_methods = KeysUnder(p.track_methods, name)
         /\ \A s \in KeysUnder(p.track_methods, name) :
                proxies[h.pid].track_methods[s] = p.track_methods[name \o Dot \o s]
    ELSE h = Plain(v)

\* C26 as stated (checked under SpecSeq): a read through the proxy of a
\* public name assigned through the proxy reflects the target's current
\* member (the member itself for an untracked name, a wrapper around it
\* for a tracked name), whether the name had been read before the
\* assignment or not.
C26_ReadYourWrites ==
    \A t \in Threads :
        ReadAfterAssignment(t) =>
            ReflectsAsStated(t, PyGetAttr(attrs, proxies[loc[t].pid].client, loc[t].name))

\* a read after an assignment returns the memoized handle, and a read of
\* a name that was not memoized reflects the target's current member
ReadsAfterAssignmentMemoized ==
    \A t \in Threads :
        ReadAfterAssignment(t) =>
            /\ loc[t].name \in DOMAIN proxies[loc[t].pid].tracked_attributes
            /\ ret[t].h = proxies[loc[t].pid].tracked_attributes[loc[t].name]
            /\ loc[t].via = "miss" =>
                  ReflectsMember(t, PyGetAttr(attrs, proxies[loc[t].pid].client,
                                              loc[t].name))

\* an assignment of a public name leaves every memo cache as it was
AssignmentKeepsCaches ==
    \A t \in Threads : Assigns(t) /\ loc'[t].name[1] # "_" => Caches' = Caches

\* C26 as amended (checked under SpecSeq): an assignment of a public name
\* through the proxy leaves the memo cache as it was.  So the next read of
\* the name returns the handle memoized earlier if the name had been read
\* through the proxy before the assignment; only if it had not does the
\* read reflect the member V the target now holds: a wrapper around V for
\* a key of the table and a callable V, a child proxy around V for a name
\* the table has dotted keys under and a V with instance attributes, and V
\* itself otherwise.
C26_ReadYourWritesUnlessMemoized ==
    []ReadsAfterAssignmentMemoized /\ [][AssignmentKeepsCaches]_vars

\* the tracked method g was read, then assigned a new function, and the
\* next read returned the wrapper around the old function
C26_Witness ==
    \E t \in Threads :
        /\ ReadAfterAssignment(t)
        /\ loc[t].name = nGen
        /\ loc[t].via = "hit"
        /\ PyGetAttr(attrs, RootClient, nGen) = NewFunc
        /\ ret[t].h.h = "wrapped"
        /\ ret[t].h.v = GenFunc

\* the tracked method g was assigned a new function before it was ever
\* read, and the read returned a wrapper around the new function
C26_FreshRead ==
    \E t \in Threads :
        /\ ReadAfterAssignment(t)
        /\ loc[t].name = nGen
        /\ loc[t].via = "miss"
        /\ ret[t].h.h = "wrapped"
        /\ ret[t].h.v = NewFunc

\* the namespace m was assigned a function before it was ever read, and
\* the read returned a child proxy around the function, not the function
C26_ChildAroundAssigned ==
    \E t \in Threads :
        /\ ReadAfterAssignment(t)
        /\ loc[t].name = nModels
        /\ loc[t].via = "miss"
        /\ ret[t].h.h = "proxy"
        /\ proxies[ret[t].h.pid].client = NewFunc
        /\ DOMAIN proxies[ret[t].h.pid].track_methods = {nCount}

\* the tracked method g was assigned a string before it was ever read,
\* and the read returned the string
C26_TrackedNameHoldsString ==
    \E t \in Threads :
        /\ ReadAfterAssignment(t)
        /\ loc[t].name = nGen
        /\ loc[t].via = "miss"
        /\ ret[t].h = Plain(NewStr)

\* the results one of whose reads by the built-in tf raises
BrokenResults(tf) ==
    IF tf = "track_generate_content"
    THEN {"resp_broken", "resp_mock", "count_15"}
    ELSE {"count_broken"}

\* C21: a built-in extraction function never ends with an exception,
\* whether the lookup of the customer id, a read of a field of the result
\* or the sink's record operation raises inside it; and when a read of a
\* field of the result raises, the sink's record operation is not called.
C21_BuiltinsNeverRaise ==
    \A t \in Threads : \A i \in 1..Len(tlog[t]) :
        tlog[t][i].kw.tf \in BuiltinTrackers
        => /\ tlog[t][i].raised = NoError
           /\ tlog[t][i].kw.result \in BrokenResults(tlog[t][i].kw.tf) => slog[t] = <<>>

\* generate_content returned a response whose prompt_token_count cannot be
\* read, for a customer given at the call site: the read raised inside
\* track_generate_content, no event reached the sink, and the caller got
\* the response
C21_Witness ==
    \E t \in Threads :
        /\ Extracted(t, "track_generate_content")
        /\ call[t].customer_id = "customer-123"
        /\ call[t].result = "resp_broken"
        /\ tlog[t][1].fault = "none"
        /\ tlog[t][1].thrown
        /\ tlog[t][1].raised = NoError
        /\ slog[t] = <<>>
        /\ ret[t].kind = "return"
        /\ ret[t].value = "resp_broken"

\* the response of the extraction failure test: every read gives a Mock,
\* and taking the first of the candidates raised
C21_SubscriptFailed ==
    \E t \in Threads :
        /\ Extracted(t, "track_generate_content")
        /\ call[t].customer_id = "customer-123"
        /\ call[t].result = "resp_mock"
        /\ tlog[t][1].fault = "none"
        /\ tlog[t][1].thrown
        /\ tlog[t][1].raised = NoError
        /\ slog[t] = <<>>

\* the other two failures: the lookup of the customer id raised, and the
\* sink raised after it was called once
C21_ResolveFailed ==
    \E t \in Threads :
        /\ Extracted(t, "track_count_tokens")
        /\ tlog[t][1].fault = "resolve" /\ tlog[t][1].thrown
        /\ slog[t] = <<>> /\ ret[t].kind = "return"

C21_SinkFailed ==
    \E t \in Threads :
        /\ Extracted(t, "track_count_tokens")
        /\ tlog[t][1].fault = "sink" /\ tlog[t][1].thrown
        /\ Len(slog[t]) = 1 /\ slog[t][1].failed /\ ret[t].kind = "return"


\* C25: the method path handed to the extraction function on a tracked
\* call reached through nested proxies is the full dotted path from the
\* root proxy, the key of the root's interception table that names the
\* extraction function invoked.
C25_FullDottedPathHandedOver ==
    \A t \in Threads : \A i \in 1..Len(tlog[t]) :
        LET kw == tlog[t][i].kw
            table == proxies[Root].track_methods IN
        /\ kw.method_name \in DOMAIN table
        /\ table[kw.method_name] = kw.tf

\* what is handed over: the last segment of the key, the name under which
\* the child proxy looked the method up
C25_LastSegmentHandedOver ==
    \A t \in Threads : \A i \in 1..Len(tlog[t]) :
        LET kw == tlog[t][i].kw
            table == proxies[call[t].w.pid].track_methods IN
        /\ kw.method_name = call[t].w.name
        /\ kw.method_name \in DOMAIN table
        /\ table[kw.method_name] = kw.tf
        /\ \A j \in 1..Len(kw.method_name) : kw.method_name[j] # "."

\* the identity a resolving thread is about to give a new object is unused
AllocationsDistinct ==
    \A t \in Threads :
        pc[t] \in {"ga_fetch", "ga_build", "ga_wrap", "ga_sub", "ga_child"} =>
            LET id == NewId(loc[t].pid, loc[t].name, t, proxies[loc[t].pid].caches) IN
            /\ id \notin DOMAIN proxies
            /\ \A pid \in DOMAIN proxies :
                  \A n \in DOMAIN proxies[pid].tracked_attributes :
                      proxies[pid].tracked_attributes[n].id # id
            /\ \A u \in Threads : ret[u].h.id # id /\ loc[u].h.id # id

====
